---- MODULE Spec2Model ----
(***************************************************************************)
(* A model of the balance/ledger service (ext/balance_manager.py) and of   *)
(* the polling schedulers (cogs/reminders.py, cogs/giveaway.py).           *)
(*                                                                         *)
(* Scheduling.  The bot runs on one asyncio event loop: a coroutine keeps  *)
(* the loop until it reaches an await that really suspends.  The balance   *)
(* service uses the synchronous sqlite3 driver, so a call of               *)
(* update_balance, get_balance or get_growid has no suspension point       *)
(* between taking its lock and releasing it (asyncio.Lock.acquire returns  *)
(* at once when the lock is free).  The variable `running' holds the task  *)
(* that owns the loop; SuspensionPoints lists the positions at which a     *)
(* balance call gives the loop back.                                       *)
(***************************************************************************)
EXTENDS Integers, Sequences, FiniteSets, TLC

VARIABLES
    now,            \* time.time(), in seconds
    users,          \* table users: growid -> balance row (committed state)
    user_growid,    \* table user_growid: discord_id -> growid
    transactions,   \* table transactions: the rows in insertion order
    cache,          \* BalanceManagerService._cache: key -> [value, timestamp]
    locks,          \* BalanceManagerService._locks: key -> lock object
    held,           \* the lock objects that are locked
    tasks,          \* the coroutines calling the service, with their position
    running,        \* the task that owns the event loop (0: the loop is free)
    reminders,      \* table reminders: id -> row
    giveaways,      \* table giveaways: id -> row
    channels,       \* the channels bot.get_channel still finds
    remLoop,        \* check_reminders: "alive", or "stopped" by an exception
    remPc,          \* position of check_reminders
    remDue,         \* due_reminders still to be triggered in this pass
    gvPc,           \* position of check_giveaways
    gvDue,          \* ended_giveaways still to be handled in this pass
    cmd,            \* the 'giveaway end' command in flight
    sent,           \* reminder id -> reminder messages delivered
    announced,      \* giveaway id -> winner announcements delivered
    remFailed,      \* reminders whose channel.send raised
    gvFailed,       \* giveaways whose announcement raised
    ticks,          \* clock steps taken by the scheduler
    polls,          \* table polls: id -> row
    active_polls,   \* Polls.active_polls: the polls the process knows as open
    pollTimers,     \* polls whose schedule_poll_end is sleeping
    pollClosed,     \* poll id -> times its results were displayed
    restarts,       \* restarts of the process so far
    pollEndCalls,   \* poll id -> calls of end_poll_message made for it
    cancelled,      \* reminders whose 'reminder cancel' has completed
    user_reminders, \* table reminders: the rows of one user in one guild
    max_reminders,  \* reminder_settings.max_reminders of that guild
    setPc,          \* command -> position of its 'reminder set'
    reacted,        \* the users whose reaction is on the giveaway message
    giveaway_entries, \* table giveaway_entries of one giveaway: user -> entries
    gwPhase,        \* that giveaway: "open", "ended" or "announced"
    gwWinners,      \* the users named in its winner announcement
    economy,        \* table economy: user_id -> balance
    givePc,         \* command -> the 'give' command it runs and its position
    stock,          \* table stock: id -> row
    stock_cache,    \* ProductManagerService._cache, the stock_count keys
    stockCall,      \* the last call of the product service and its result
    levels,         \* table levels: member -> row (one guild)
    xp_cooldowns,   \* Leveling.xp_cooldowns: member -> end of the cooldown
    xpPc,           \* message handler -> position of its add_xp call
    music_queues,   \* Music.music_queues: guild -> queued tracks
    voice,          \* guilds where the bot has a voice client (the player)
    playing,        \* guilds whose player is playing
    max_queue_size, \* table music_settings: guild -> max_queue_size
    musicPc,        \* command handler -> position of its play command
    musicCall       \* the last music command or event and its result

balanceVars == <<now, users, user_growid, transactions, cache, locks, held,
                 tasks, running>>

pollVars == <<polls, active_polls, pollTimers, pollClosed, restarts,
              pollEndCalls>>

remCmdVars == <<user_reminders, max_reminders, setPc>>
gwVars == <<reacted, giveaway_entries, gwPhase, gwWinners>>
ecoVars == <<economy, givePc>>
stockVars == <<stock, stock_cache, stockCall>>
lvlVars == <<levels, xp_cooldowns, xpPc>>
musicVars == <<music_queues, voice, playing, max_queue_size, musicPc, musicCall>>

\* The state of the other cogs.
cogVars == <<cancelled, remCmdVars, gwVars, ecoVars, stockVars, lvlVars, musicVars>>

\* The state of the other cogs without one of them.
notCancelled == <<remCmdVars, gwVars, ecoVars, stockVars, lvlVars, musicVars>>
notRemCmd == <<cancelled, gwVars, ecoVars, stockVars, lvlVars, musicVars>>
notGw == <<cancelled, remCmdVars, ecoVars, stockVars, lvlVars, musicVars>>
notEco == <<cancelled, remCmdVars, gwVars, stockVars, lvlVars, musicVars>>
notStock == <<cancelled, remCmdVars, gwVars, ecoVars, lvlVars, musicVars>>
notLvl == <<cancelled, remCmdVars, gwVars, ecoVars, stockVars, musicVars>>
notMusic == <<cancelled, remCmdVars, gwVars, ecoVars, stockVars, lvlVars>>

\* The scheduler state without the other cogs.
baseSchedVars == <<reminders, giveaways, channels, remLoop, remPc, remDue, gvPc,
                   gvDue, cmd, sent, announced, remFailed, gvFailed, ticks,
                   pollVars>>

schedVars == <<reminders, giveaways, channels, remLoop, remPc, remDue, gvPc,
               gvDue, cmd, sent, announced, remFailed, gvFailed, ticks, pollVars,
               cogVars>>

vars == <<balanceVars, schedVars>>

-----------------------------------------------------------------------------
(* Bounds of the model *)

NumTasks == 2
MaxTime == 30
MaxTicks == 2
MaxPolls == 1
MaxRestarts == 1
MaxCoin == 2
MaxReminders == 2
MaxRows == 3
MaxEntries == 2
MaxXp == 200
MaxQueue == 2
MaxSongs == 3

(* Program constants *)

CacheTimeout == 30
StockCacheTimeout == 60
LevelCooldown == 60
XpPerLevel == 100

-----------------------------------------------------------------------------
(* Data *)

Tasks == 1..NumTasks

\* "alice" has an account at the start, "bob" has none.
GrowIds == {"alice", "bob"}
DiscordIds == {"d1", "d2"}

Balance(w, d, b) == [wl |-> w, dl |-> d, bgl |-> b]
Zero == Balance(0, 0, 0)

\* The (wl, dl, bgl) arguments of the update_balance calls that are issued.
Deltas == {Balance(-2, 0, 0), Balance(1, -1, 1)}

TimeSteps == {15}

BalKey(g) == <<"balance", g>>
GidKey(d) == <<"growid", d>>
RegKey(d) == <<"register", d>>

Max(a, b) == IF a >= b THEN a ELSE b

IdleTask ==
    [op |-> "none", key |-> "", delta |-> Zero, pc |-> "idle", lock |-> 0,
     old |-> Zero, new |-> Zero, ret |-> "pending", bal |-> Zero, gid |-> "",
     reads |-> 0, fills |-> 0, had |-> "none", seen |-> Zero, raced |-> FALSE,
     made |-> FALSE, err |-> "none", growid |-> "", cmd |-> "", amount |-> 0,
     currency |-> ""]

-----------------------------------------------------------------------------
(* Pure helpers of the service *)

\* Mutant: the new balance is not floored at zero.
NewBalanceUnclamped(cur, d) ==
    Balance(cur.wl + d.wl, cur.dl + d.dl, cur.bgl + d.bgl)

\* Mutant: an overdraft in one denomination empties the whole balance.
NewBalanceJoint(cur, d) ==
    IF cur.wl + d.wl < 0 \/ cur.dl + d.dl < 0 \/ cur.bgl + d.bgl < 0
    THEN Balance(0, 0, 0)
    ELSE Balance(cur.wl + d.wl, cur.dl + d.dl, cur.bgl + d.bgl)

\* update_balance, "Calculate new balance".
NewBalance(cur, d) ==
    Balance(Max(0, cur.wl + d.wl), Max(0, cur.dl + d.dl), Max(0, cur.bgl + d.bgl))

\* Balance.format(): the snapshot written to the log (ext/constants.py).
format(b) == <<b.wl, b.dl, b.bgl>>

\* Mutant: the log row takes its old snapshot after the new balance is built.
TxRowOldFromNew(g, old, new) ==
    [growid |-> g, old_balance |-> format(new), new_balance |-> format(new)]

\* The row of the INSERT INTO transactions.
TxRow(g, old, new) ==
    [growid |-> g, old_balance |-> format(old), new_balance |-> format(new)]

\* Mutant: an entry is still served at exactly the timeout.
FreshInclusive(entry, t) == t - entry.timestamp <= CacheTimeout

\* The TTL test of get_growid and get_balance.
Fresh(entry, t) == t - entry.timestamp < CacheTimeout

CachePut(c, key, value, t) ==
    [k \in (DOMAIN c) \cup {key} |->
        IF k = key THEN [value |-> value, timestamp |-> t] ELSE c[k]]

CacheDel(c, key) == [k \in (DOMAIN c) \ {key} |-> c[k]]

\* Mutant: the cache is not refreshed after the commit.
CacheNotRefreshed(c, key, value, t) == c

\* update_balance, "Update cache" after the commit.
CacheAfterCommit(c, key, value, t) == CachePut(c, key, value, t)

\* Identity of a newly constructed asyncio.Lock(): an object distinct from
\* every lock that is still referenced (by the lock map or by a holder).
NewLock ==
    LET used == {locks[k] : k \in DOMAIN locks} \cup held
    IN  CHOOSE i \in 1..(Cardinality(used) + 1) :
            i \notin used /\ \A j \in 1..(i - 1) : j \in used

\* Mutant: one lock object serves every key.
LockOfGlobal(key) == 1

\* _get_lock: the lock object registered for key, constructed when absent.
LockOf(key) == IF key \in DOMAIN locks THEN locks[key] ELSE NewLock

LocksAfterGet(key) ==
    [k \in (DOMAIN locks) \cup {key} |-> IF k = key THEN LockOf(key) ELSE locks[k]]

\* Mutant: the lock stays locked when the call ends.
ReleaseLeaks(h, l) == h \cup {l}

\* 'async with lock': the lock is released when the block is left, whether
\* by a return or by an exception.
Release(h, l) == h \ {l}

\* Mutant: the store calls are awaited, so the task leaves the loop there.
SuspendsAtStoreIO(pc) == pc \in {"read", "committed", "except"}

\* Positions of a balance call at which its coroutine suspends.
SuspensionPoints == {}

Suspends(pc) == pc \in SuspensionPoints

\* Mutant: a missing row is read as an account with the default balance.
AccountAssumed(g) == TRUE

\* update_balance, 'if not current': the SELECT has found the row of g.
AccountExists(g) == g \in DOMAIN users

\* The task may take its next step: it owns the loop, or the loop is free.
CanRun(t) == running \in {0, t}

\* The pending transaction of a connection: what its statements have written.
\* failAt names the statement that raises ("none": all succeed).
Work(g, old, new, failAt) ==
    [users |-> IF failAt = "update" THEN users
               ELSE [users EXCEPT ![g] = new],
     transactions |-> IF failAt \in {"update", "insert"} THEN transactions
                      ELSE Append(transactions, TxRow(g, old, new))]

\* Mutant: the statements had been committed one by one (no rollback effect).
RollbackKeepsWrites(db, work) == work

\* conn.rollback(): the committed state stays as it was.
Rollback(db, work) == db

\* conn.commit(): the pending writes become the committed state.
Commit(db, work) == work

-----------------------------------------------------------------------------
(* Initial state *)

InitUsers == [g \in {"alice"} |-> Balance(1, 0, 2)]

\* repeat_interval NULL: a one-shot reminder.
NoRepeat == [n |-> 0, unit |-> ""]

RemIds == {1, 2, 3}
GvIds == {1, 2}
Channels == {"c1", "c2"}
PollIds == 1..MaxPolls

\* The reminders set before the first poll pass: a one-shot reminder and two
\* repeating ones ('reminder repeat 1h ...', 'reminder repeat 2d ...').
InitReminders ==
    [r \in RemIds |->
        [end_time |-> IF r = 3 THEN 60 ELSE 30,
         repeat_interval |-> IF r = 1 THEN NoRepeat
                             ELSE IF r = 2 THEN [n |-> 1, unit |-> "h"]
                             ELSE [n |-> 2, unit |-> "d"],
         is_active |-> TRUE,
         last_triggered |-> -1,
         channel_id |-> IF r = 3 THEN "c2" ELSE "c1"]]

InitGiveaways ==
    [g \in GvIds |->
        [end_time |-> 30, ended |-> FALSE,
         channel_id |-> IF g = 1 THEN "c1" ELSE "c2"]]

\* The stock of the products (ext/product_manager.py).
Products == {"p1", "p2"}
StockIds == {1, 2, 3, 4}
StockStatuses == {"available", "sold"}

\* The rows the table holds when the bot starts.
InitStock ==
    [i \in StockIds |->
        [product_code |-> IF i >= 3 THEN "p2" ELSE "p1", status |-> "available"]]

\* wrote: the products for which a write of the service has succeeded.
NoStockCall == [op |-> "none", product |-> "", ok |-> FALSE, count |-> 0,
                wrote |-> {}]

\* The economy (cogs/economy.py).
EcoUsers == {"ann", "ben"}

\* The amount argument of the give commands that are issued.
GiveAmounts == {1, 2}

\* The balances before the first command: "ben" has no row yet.
InitEconomy == [u \in {"ann"} |-> 2]

IdleGive == [pc |-> "idle", from |-> "", to |-> "", amount |-> 0]

\* Guilds that use the music commands.
Guilds == {"g1", "g2"}

NoMusicCall == [op |-> "none", guild |-> "none", result |-> "none"]

InitCogs ==
    /\ cancelled = {}
    /\ user_reminders = <<>>
    /\ max_reminders = MaxReminders
    /\ setPc = [t \in Tasks |-> "idle"]
    /\ reacted = {}
    /\ giveaway_entries = <<>>
    /\ gwPhase = "open"
    /\ gwWinners = {}
    /\ economy = InitEconomy
    /\ givePc = [t \in Tasks |-> IdleGive]
    /\ stock = InitStock
    /\ stock_cache = <<>>
    /\ stockCall = NoStockCall
    /\ levels = <<>>
    /\ xp_cooldowns = <<>>
    /\ xpPc = [t \in Tasks |-> "idle"]
    /\ music_queues = <<>>
    /\ voice = {}
    /\ playing = {}
    /\ max_queue_size = [g \in Guilds |-> MaxQueue]
    /\ musicPc = [t \in Tasks |-> "idle"]
    /\ musicCall = NoMusicCall

InitSched ==
    /\ reminders = InitReminders
    /\ giveaways = InitGiveaways
    /\ channels = Channels
    /\ remLoop = "alive"
    /\ remPc = "sleep"
    /\ remDue = <<>>
    /\ gvPc = "sleep"
    /\ gvDue = <<>>
    /\ cmd = [pc |-> "idle", id |-> 0]
    /\ sent = [r \in RemIds |-> 0]
    /\ announced = [g \in GvIds |-> 0]
    /\ remFailed = {}
    /\ gvFailed = {}
    /\ ticks = 0
    /\ polls = <<>>
    /\ active_polls = {}
    /\ pollTimers = {}
    /\ pollClosed = [p \in PollIds |-> 0]
    /\ restarts = 0
    /\ pollEndCalls = [p \in PollIds |-> 0]
    /\ InitCogs

Init ==
    /\ InitSched
    /\ now = 0
    /\ users = InitUsers
    /\ user_growid = [d \in {"d1"} |-> "alice"]
    /\ transactions = <<>>
    /\ cache = <<>>
    /\ locks = <<>>
    /\ held = {}
    /\ tasks = [t \in Tasks |-> IdleTask]
    /\ running = 0

-----------------------------------------------------------------------------
(* Callers: a command handler awaits one call of the service *)

CanIssue(t) ==
    /\ tasks[t].pc = "idle"
    /\ \A u \in Tasks : u < t => tasks[u].pc # "idle"
    /\ running = 0

CallUpdateBalance(t) ==
    /\ CanIssue(t)
    /\ \E g \in GrowIds, d \in Deltas :
        tasks' = [tasks EXCEPT ![t] =
            [IdleTask EXCEPT !.op = "update_balance", !.key = g, !.delta = d,
                             !.pc = "start"]]
    /\ UNCHANGED <<now, users, user_growid, transactions, cache, locks, held, running,
                   schedVars>>

CallGetBalance(t) ==
    /\ CanIssue(t)
    /\ \E g \in GrowIds :
        tasks' = [tasks EXCEPT ![t] =
            [IdleTask EXCEPT !.op = "get_balance", !.key = g, !.pc = "start"]]
    /\ UNCHANGED <<now, users, user_growid, transactions, cache, locks, held, running,
                   schedVars>>

CallGetGrowid(t) ==
    /\ CanIssue(t)
    /\ \E d \in DiscordIds :
        tasks' = [tasks EXCEPT ![t] =
            [IdleTask EXCEPT !.op = "get_growid", !.key = d, !.pc = "start"]]
    /\ UNCHANGED <<now, users, user_growid, transactions, cache, locks, held, running,
                   schedVars>>

-----------------------------------------------------------------------------
(* update_balance *)

\* Another update of the same account is pending or in flight.
OtherUpdate(t, g) ==
    \E u \in Tasks \ {t} :
        /\ tasks[u].op = "update_balance"
        /\ tasks[u].key = g
        /\ tasks[u].pc \in {"start", "read", "committed", "except"}

\* async with lock; get_connection(); SELECT; "Calculate new balance".
UbBegin(t) ==
    LET g == tasks[t].key
        key == BalKey(g)
        lk == LockOf(key)
    IN  /\ tasks[t].op = "update_balance"
        /\ tasks[t].pc = "start"
        /\ CanRun(t)
        /\ lk \notin held
        /\ locks' = LocksAfterGet(key)
        /\ held' = held \cup {lk}
        /\ \E outcome \in {"ok", "connect_error", "select_error"} :
            LET found == outcome = "ok" /\ AccountExists(g)
                old == IF found /\ g \in DOMAIN users THEN users[g] ELSE Zero
                pc2 == IF found THEN "read" ELSE "except"
            IN  /\ tasks' = [tasks EXCEPT ![t] =
                    [@ EXCEPT !.lock = lk, !.old = old,
                              !.new = IF found THEN NewBalance(old, tasks[t].delta)
                                      ELSE Zero,
                              !.pc = pc2, !.raced = OtherUpdate(t, g),
                              !.made = key \notin DOMAIN locks]]
                /\ running' = IF Suspends(pc2) THEN 0 ELSE t
        /\ UNCHANGED <<now, users, user_growid, transactions, cache,
                   schedVars>>

\* UPDATE users; INSERT INTO transactions; conn.commit(); on an exception
\* conn.rollback().
UbWrite(t) ==
    LET g == tasks[t].key
        db == [users |-> users, transactions |-> transactions]
    IN  /\ tasks[t].op = "update_balance"
        /\ tasks[t].pc = "read"
        /\ CanRun(t)
        /\ \E failAt \in {"none", "update", "insert", "commit"} :
            LET work == Work(g, tasks[t].old, tasks[t].new, failAt)
                after == IF failAt = "none" THEN Commit(db, work)
                         ELSE Rollback(db, work)
                pc2 == IF failAt = "none" THEN "committed" ELSE "except"
            IN  /\ users' = after.users
                /\ transactions' = after.transactions
                /\ tasks' = [tasks EXCEPT ![t].pc = pc2]
                /\ running' = IF Suspends(pc2) THEN 0 ELSE t
        /\ UNCHANGED <<now, user_growid, cache, locks, held,
                   schedVars>>

\* "Update cache"; return new_balance; conn.close(); the lock is released.
UbReturn(t) ==
    /\ tasks[t].op = "update_balance"
    /\ tasks[t].pc = "committed"
    /\ CanRun(t)
    /\ cache' = CacheAfterCommit(cache, BalKey(tasks[t].key), tasks[t].new, now)
    /\ tasks' = [tasks EXCEPT ![t] =
            [@ EXCEPT !.pc = "done", !.ret = "value", !.bal = tasks[t].new]]
    /\ held' = Release(held, tasks[t].lock)
    /\ running' = 0
    /\ UNCHANGED <<now, users, user_growid, transactions, locks,
                   schedVars>>

\* except Exception: return None; conn.close(); the lock is released.
UbFail(t) ==
    /\ tasks[t].op = "update_balance"
    /\ tasks[t].pc = "except"
    /\ CanRun(t)
    /\ tasks' = [tasks EXCEPT ![t] = [@ EXCEPT !.pc = "done", !.ret = "none"]]
    /\ held' = Release(held, tasks[t].lock)
    /\ running' = 0
    /\ UNCHANGED <<now, users, user_growid, transactions, cache, locks,
                   schedVars>>

-----------------------------------------------------------------------------
(* get_balance and get_growid *)

\* What the read finds in the cache before it decides.
EntryState(key) ==
    IF key \notin DOMAIN cache THEN "absent"
    ELSE IF Fresh(cache[key], now) THEN "young" ELSE "expired"

\* A read served from the cache: no lock, no store access.
CachedRead(t, key) ==
    /\ key \in DOMAIN cache
    /\ Fresh(cache[key], now)
    /\ UNCHANGED <<cache, locks, held>>

\* The store side of a read: the entry, if any, is deleted, the lock of the
\* key is taken, the row is selected and, when found, cached.
\* table: the key -> value view of the table that is read.
StoreRead(t, key, table, rowkey, outcome) ==
    /\ ~ (key \in DOMAIN cache /\ Fresh(cache[key], now))
    /\ LockOf(key) \notin held
    /\ locks' = LocksAfterGet(key)
    /\ held' = Release(held \cup {LockOf(key)}, LockOf(key))
    /\ cache' = IF outcome = "ok" /\ rowkey \in DOMAIN table
                THEN CachePut(CacheDel(cache, key), key, table[rowkey], now)
                ELSE CacheDel(cache, key)

GetBalance(t) ==
    LET g == tasks[t].key
        key == BalKey(g)
    IN  /\ tasks[t].op = "get_balance"
        /\ tasks[t].pc = "start"
        /\ running = 0
        /\ \/ /\ CachedRead(t, key)
              /\ tasks' = [tasks EXCEPT ![t] =
                    [@ EXCEPT !.pc = "done", !.ret = "value",
                              !.bal = cache[key].value, !.had = "young",
                              !.seen = IF g \in DOMAIN users THEN users[g] ELSE Zero]]
           \/ \E outcome \in {"ok", "connect_error", "select_error"} :
                /\ StoreRead(t, key, users, g, outcome)
                /\ tasks' = [tasks EXCEPT ![t] =
                    [@ EXCEPT !.pc = "done",
                              !.had = EntryState(key),
                              !.err = IF outcome = "ok" THEN "none" ELSE outcome,
                              !.reads = IF outcome = "connect_error" THEN 0 ELSE 1,
                              !.fills = IF outcome = "ok" /\ g \in DOMAIN users
                                        THEN 1 ELSE 0,
                              !.ret = IF outcome = "connect_error" THEN "raised"
                                      ELSE IF outcome = "ok" /\ g \in DOMAIN users
                                      THEN "value" ELSE "none",
                              !.bal = IF outcome = "ok" /\ g \in DOMAIN users
                                      THEN users[g] ELSE Zero,
                              !.seen = IF g \in DOMAIN users THEN users[g] ELSE Zero]]
        /\ UNCHANGED <<now, users, user_growid, transactions, running,
                   schedVars>>

GetGrowid(t) ==
    LET d == tasks[t].key
        key == GidKey(d)
    IN  /\ tasks[t].op = "get_growid"
        /\ tasks[t].pc = "start"
        /\ running = 0
        /\ \/ /\ CachedRead(t, key)
              /\ tasks' = [tasks EXCEPT ![t] =
                    [@ EXCEPT !.pc = "done", !.ret = "value",
                              !.gid = cache[key].value, !.had = "young"]]
           \/ \E outcome \in {"ok", "connect_error", "select_error"} :
                /\ StoreRead(t, key, user_growid, d, outcome)
                /\ tasks' = [tasks EXCEPT ![t] =
                    [@ EXCEPT !.pc = "done",
                              !.had = EntryState(key),
                              !.err = IF outcome = "ok" THEN "none" ELSE outcome,
                              !.reads = IF outcome = "connect_error" THEN 0 ELSE 1,
                              !.fills = IF outcome = "ok" /\ d \in DOMAIN user_growid
                                        THEN 1 ELSE 0,
                              !.ret = IF outcome = "connect_error" THEN "raised"
                                      ELSE IF outcome = "ok" /\ d \in DOMAIN user_growid
                                      THEN "value" ELSE "none",
                              !.gid = IF outcome = "ok" /\ d \in DOMAIN user_growid
                                      THEN user_growid[d] ELSE ""]]
        /\ UNCHANGED <<now, users, user_growid, transactions, running,
                   schedVars>>

-----------------------------------------------------------------------------
(* cleanup and the clock *)

Cleanup ==
    /\ running = 0
    /\ cache' = <<>>
    /\ locks' = <<>>
    /\ UNCHANGED <<now, users, user_growid, transactions, held, tasks,
                   running,
                   schedVars>>

Tick ==
    /\ running = 0
    /\ \E s \in TimeSteps :
        /\ now + s <= MaxTime
        /\ now' = now + s
    /\ UNCHANGED <<users, user_growid, transactions, cache, locks, held,
                   tasks, running,
                   schedVars>>

-----------------------------------------------------------------------------

Next ==
    \/ \E t \in Tasks : CallUpdateBalance(t)
    \/ \E t \in Tasks : CallGetBalance(t)
    \/ \E t \in Tasks : CallGetGrowid(t)
    \/ \E t \in Tasks : UbBegin(t)
    \/ \E t \in Tasks : UbWrite(t)
    \/ \E t \in Tasks : UbReturn(t)
    \/ \E t \in Tasks : UbFail(t)
    \/ \E t \in Tasks : GetBalance(t)
    \/ \E t \in Tasks : GetGrowid(t)
    \/ Cleanup
    \/ Tick

Spec == Init /\ [][Next]_vars

-----------------------------------------------------------------------------
(* register_user *)

CallRegisterUser(t) ==
    /\ CanIssue(t)
    /\ \E d \in DiscordIds, g \in GrowIds :
        tasks' = [tasks EXCEPT ![t] =
            [IdleTask EXCEPT !.op = "register_user", !.key = d, !.growid = g,
                             !.pc = "start"]]
    /\ UNCHANGED <<now, users, user_growid, transactions, cache, locks, held, running,
                   schedVars>>

\* SELECT growid FROM users WHERE growid = ? COLLATE binary: the growid of
\* the row that is byte for byte the argument, "" when there is none.
SelectGrowid(g) == IF g \in DOMAIN users THEN g ELSE ""

\* register_user, 'if existing and existing['growid'] != growid': raise.
RejectsGrowId(g) == SelectGrowid(g) # "" /\ SelectGrowid(g) # g

\* INSERT OR IGNORE INTO users (growid): a new row has the default balances.
UsersAfterInsertOrIgnore(g) ==
    [k \in (DOMAIN users) \cup {g} |-> IF k \in DOMAIN users THEN users[k] ELSE Zero]

\* INSERT OR REPLACE INTO user_growid (discord_id, growid).
LinksAfterInsertOrReplace(d, g) ==
    [k \in (DOMAIN user_growid) \cup {d} |-> IF k = d THEN g ELSE user_growid[k]]

\* register_user, from the lock to the return; the coroutine does not suspend.
RegisterUser(t) ==
    LET d == tasks[t].key
        g == tasks[t].growid
        key == RegKey(d)
    IN  /\ tasks[t].op = "register_user"
        /\ tasks[t].pc = "start"
        /\ running = 0
        /\ LockOf(key) \notin held
        /\ locks' = LocksAfterGet(key)
        /\ \E outcome \in {"ok", "connect_error", "store_error"} :
            LET done == outcome = "ok" /\ ~ RejectsGrowId(g)
            IN  /\ users' = IF done THEN UsersAfterInsertOrIgnore(g) ELSE users
                /\ user_growid' = IF done THEN LinksAfterInsertOrReplace(d, g)
                                  ELSE user_growid
                /\ cache' = IF done THEN CachePut(cache, GidKey(d), g, now) ELSE cache
                /\ tasks' = [tasks EXCEPT ![t] =
                        [@ EXCEPT !.pc = "done", !.lock = LockOf(key),
                                  !.ret = IF done THEN "true" ELSE "false",
                                  !.had = IF g \in DOMAIN users THEN "exists" ELSE "new",
                                  !.err = IF outcome = "ok" THEN "none" ELSE outcome]]
        /\ held' = Release(held \cup {LockOf(key)}, LockOf(key))
        /\ UNCHANGED <<now, transactions, running, schedVars>>

\* The calls of the service, register_user among them, at one instant.
RegNext ==
    \/ \E t \in Tasks : CallUpdateBalance(t)
    \/ \E t \in Tasks : CallGetBalance(t)
    \/ \E t \in Tasks : CallGetGrowid(t)
    \/ \E t \in Tasks : CallRegisterUser(t)
    \/ \E t \in Tasks : UbBegin(t)
    \/ \E t \in Tasks : UbWrite(t)
    \/ \E t \in Tasks : UbReturn(t)
    \/ \E t \in Tasks : UbFail(t)
    \/ \E t \in Tasks : GetBalance(t)
    \/ \E t \in Tasks : GetGrowid(t)
    \/ \E t \in Tasks : RegisterUser(t)
    \/ Cleanup

\* The event loop goes on running the update_balance coroutines that can
\* take a step.
RegFairness ==
    WF_vars(\E t \in Tasks : UbBegin(t) \/ UbWrite(t) \/ UbReturn(t) \/ UbFail(t))

RegSpec == Init /\ [][RegNext]_vars /\ RegFairness

-----------------------------------------------------------------------------
(* The admin commands addbal and removebal (cogs/admin.py) *)

\* The amount and currency arguments that are tried.
Amounts == {-1, 0, 2}
Currencies == {"WL", "DL", "XX"}

\* CURRENCY_RATES (ext/constants.py): the value of a currency in WL.
CURRENCY_RATES == [c \in {"WL", "DL"} |-> IF c = "WL" THEN 1 ELSE 100]

\* Mutant: only a negative amount is refused.
AmountRejectedBelowZero(amount) == amount < 0

\* add_balance and remove_balance, 'if amount <= 0'.
AmountRejected(amount) == amount <= 0

\* "Convert to WLs" and, for removebal, "Convert to negative WLs".
Wls(kind, amount, currency) ==
    LET wls == IF currency = "WL" THEN amount ELSE amount * CURRENCY_RATES[currency]
    IN  IF kind = "addbal" THEN wls ELSE 0 - wls

\* _process_command and the callback of addbal or removebal up to the call
\* of update_balance.  gate: the command is let through ("run"), finds its
\* command lock taken ("busy") or is not from the admin ("denied").
AdminBalanceCommand(t) ==
    /\ CanIssue(t)
    /\ \E kind \in {"addbal", "removebal"}, amount \in Amounts,
          currency \in Currencies, gate \in {"run", "busy", "denied"} :
        LET base == [IdleTask EXCEPT !.cmd = kind, !.key = "alice",
                                     !.amount = amount, !.currency = currency]
            rejected(msg) == [base EXCEPT !.op = "admin_command", !.pc = "done",
                                          !.ret = msg]
        IN  tasks' = [tasks EXCEPT ![t] =
                IF gate # "run" THEN rejected(gate)
                ELSE IF currency \notin DOMAIN CURRENCY_RATES
                THEN rejected("invalid_currency")
                ELSE IF AmountRejected(amount) THEN rejected("invalid_amount")
                ELSE [base EXCEPT !.op = "update_balance", !.pc = "start",
                                  !.delta = Balance(Wls(kind, amount, currency), 0, 0)]]
    /\ UNCHANGED <<now, users, user_growid, transactions, cache, locks, held, running,
                   schedVars>>

AdminNext ==
    \/ \E t \in Tasks : AdminBalanceCommand(t)
    \/ \E t \in Tasks : UbBegin(t)
    \/ \E t \in Tasks : UbWrite(t)
    \/ \E t \in Tasks : UbReturn(t)
    \/ \E t \in Tasks : UbFail(t)
    \/ \E t \in Tasks : CallGetBalance(t)
    \/ \E t \in Tasks : GetBalance(t)

AdminSpec == Init /\ [][AdminNext]_vars

-----------------------------------------------------------------------------
(* The admin command resetuser (cogs/admin.py) *)

\* reset_user: the arguments wl, dl, bgl of its update_balance call.
ResetDelta(b) == Balance(0 - b.wl, 0 - b.dl, 0 - b.bgl)

\* _process_command and the callback of resetuser up to the call of
\* update_balance: the confirmation, then get_balance, served from the cache
\* or from the store.  The callback keeps the loop from the return of
\* get_balance to the call of update_balance.
ResetUser(t) ==
    /\ CanIssue(t)
    /\ \E g \in GrowIds, gate \in {"run", "busy", "denied", "cancelled"} :
        LET key == BalKey(g)
            base == [IdleTask EXCEPT !.cmd = "resetuser", !.key = g]
            stops(msg) == [base EXCEPT !.op = "admin_command", !.pc = "done",
                                       !.ret = msg]
            calls(b) == [base EXCEPT !.op = "update_balance", !.pc = "start",
                                     !.seen = b, !.delta = ResetDelta(b)]
        IN  IF gate # "run"
            THEN /\ tasks' = [tasks EXCEPT ![t] = stops(gate)]
                 /\ UNCHANGED <<cache, locks, held, running>>
            ELSE \/ /\ CachedRead(t, key)
                    /\ tasks' = [tasks EXCEPT ![t] = calls(cache[key].value)]
                    /\ running' = IF Suspends("start") THEN 0 ELSE t
                 \/ \E outcome \in {"ok", "connect_error", "select_error"} :
                    /\ StoreRead(t, key, users, g, outcome)
                    /\ IF outcome = "ok" /\ g \in DOMAIN users
                       THEN /\ tasks' = [tasks EXCEPT ![t] = calls(users[g])]
                            /\ running' = IF Suspends("read") THEN 0 ELSE t
                       ELSE /\ tasks' = [tasks EXCEPT ![t] =
                                    stops(IF outcome = "connect_error"
                                          THEN "raised" ELSE "not_found")]
                            /\ UNCHANGED running
    /\ UNCHANGED <<now, users, user_growid, transactions, schedVars>>

ResetNext ==
    \/ \E t \in Tasks : ResetUser(t)
    \/ \E t \in Tasks : CallUpdateBalance(t)
    \/ \E t \in Tasks : UbBegin(t)
    \/ \E t \in Tasks : UbWrite(t)
    \/ \E t \in Tasks : UbReturn(t)
    \/ \E t \in Tasks : UbFail(t)
    \/ Tick

ResetSpec == Init /\ [][ResetNext]_vars

-----------------------------------------------------------------------------
(* The schedulers: cogs/reminders.py and cogs/giveaway.py.  Their handlers  *)
(* await the Discord API and the database, so other handlers run between    *)
(* their steps.                                                             *)

\* The ids of the set, in ascending order (the order of the SELECT).
RECURSIVE InOrder(_)
InOrder(S) ==
    IF S = {} THEN <<>>
    ELSE LET m == CHOOSE x \in S : \A y \in S : x <= y
         IN  <<m>> \o InOrder(S \ {m})

\* trigger_reminder: the parsed repeat interval, in seconds ('h', 'd', 'w').
IntervalSeconds(iv) ==
    IF iv.unit = "h" THEN iv.n * 3600
    ELSE IF iv.unit = "d" THEN iv.n * 86400
    ELSE IF iv.unit = "w" THEN iv.n * 604800
    ELSE 0

\* Mutant: the next time is counted from the time of the poll pass.
NextTimeFromPoll(end_time, iv) == now + IntervalSeconds(iv)

\* trigger_reminder: next_time, from the end_time of the selected row.
NextTime(end_time, iv) == end_time + IntervalSeconds(iv)

\* check_reminders: SELECT the active rows that are due; the loop body starts.
\* sent0 is not a column: it records how often the row had fired when the pass
\* selected it.
RemPoll ==
    /\ remLoop = "alive"
    /\ remPc = "sleep"
    /\ remDue' = [i \in 1..Cardinality({r \in RemIds :
                        reminders[r].is_active /\ reminders[r].end_time <= now}) |->
                    LET r == InOrder({x \in RemIds :
                                reminders[x].is_active
                                /\ reminders[x].end_time <= now})[i]
                    IN  [id |-> r,
                         sent0 |-> sent[r],
                         end_time |-> reminders[r].end_time,
                         repeat_interval |-> reminders[r].repeat_interval,
                         channel_id |-> reminders[r].channel_id]]
    /\ remPc' = "iter"
    /\ UNCHANGED <<balanceVars, cogVars, pollVars, reminders, giveaways, channels, remLoop, gvPc,
                   gvDue, cmd, sent, announced, remFailed, gvFailed, ticks>>

\* trigger_reminder up to channel.send: without the channel the row is
\* skipped; a send that raises leaves trigger_reminder, the for loop and the
\* task loop, which stops.
RemTrigger ==
    /\ remLoop = "alive"
    /\ remPc = "iter"
    /\ remDue # <<>>
    /\ LET row == Head(remDue)
       IN  IF row.channel_id \notin channels
           THEN /\ remDue' = Tail(remDue)
                /\ UNCHANGED <<remPc, remLoop, sent, remFailed>>
           ELSE \E outcome \in {"ok", "raises"} :
                IF outcome = "ok"
                THEN /\ sent' = [sent EXCEPT ![row.id] = @ + 1]
                     /\ remPc' = "sent"
                     /\ UNCHANGED <<remDue, remLoop, remFailed>>
                ELSE /\ remFailed' = remFailed \cup {row.id}
                     /\ remLoop' = "stopped"
                     /\ remDue' = <<>>
                     /\ remPc' = "sleep"
                     /\ UNCHANGED sent
    /\ UNCHANGED <<balanceVars, cogVars, pollVars, reminders, giveaways, channels, gvPc, gvDue, cmd,
                   announced, gvFailed, ticks>>

\* trigger_reminder after the send: a repeating reminder is moved to its
\* next time, a one-shot reminder is deactivated.
RemUpdate ==
    /\ remPc = "sent"
    /\ LET row == Head(remDue)
       IN  reminders' = [reminders EXCEPT ![row.id] =
                IF row.repeat_interval # NoRepeat
                THEN [@ EXCEPT !.end_time = NextTime(row.end_time, row.repeat_interval),
                               !.last_triggered = now]
                ELSE [@ EXCEPT !.is_active = FALSE, !.last_triggered = now]]
    /\ remDue' = Tail(remDue)
    /\ remPc' = "iter"
    /\ UNCHANGED <<balanceVars, cogVars, pollVars, giveaways, channels, remLoop, gvPc, gvDue, cmd,
                   sent, announced, remFailed, gvFailed, ticks>>

\* check_reminders: the for loop is over; the loop sleeps until the next pass.
RemPassEnd ==
    /\ remLoop = "alive"
    /\ remPc = "iter"
    /\ remDue = <<>>
    /\ remPc' = "sleep"
    /\ UNCHANGED <<balanceVars, cogVars, pollVars, reminders, giveaways, channels, remLoop, remDue,
                   gvPc, gvDue, cmd, sent, announced, remFailed, gvFailed, ticks>>

\* end_giveaway up to its first await: the row is read again; an ended
\* giveaway is left alone; otherwise it is marked ended and committed (a
\* sqlite error is caught and rolled back).  The result names what follows:
\* "announce" when the announcement is about to be sent, "return" otherwise.
EndGiveawaySync(g, outcome) ==
    IF giveaways[g].ended \/ outcome = "db_error"
    THEN [giveaways |-> giveaways, then |-> "return"]
    ELSE [giveaways |-> [giveaways EXCEPT ![g].ended = TRUE],
          then |-> IF giveaways[g].channel_id \in channels
                   THEN "announce" ELSE "return"]

\* check_giveaways: SELECT the giveaways that are due and not ended.
GvPoll ==
    /\ gvPc = "sleep"
    /\ gvDue' = InOrder({g \in GvIds :
                    ~ giveaways[g].ended /\ giveaways[g].end_time <= now})
    /\ gvPc' = "iter"
    /\ UNCHANGED <<balanceVars, cogVars, pollVars, reminders, giveaways, channels, remLoop, remPc,
                   remDue, cmd, sent, announced, remFailed, gvFailed, ticks>>

\* check_giveaways: await self.end_giveaway(giveaway['id']), first part.
GvEnd ==
    /\ gvPc = "iter"
    /\ gvDue # <<>>
    /\ \E outcome \in {"ok", "db_error"} :
        LET res == EndGiveawaySync(Head(gvDue), outcome)
        IN  /\ giveaways' = res.giveaways
            /\ IF res.then = "announce"
               THEN gvPc' = "announce" /\ UNCHANGED gvDue
               ELSE gvDue' = Tail(gvDue) /\ UNCHANGED gvPc
    /\ UNCHANGED <<balanceVars, cogVars, pollVars, reminders, channels, remLoop, remPc, remDue, cmd,
                   sent, announced, remFailed, gvFailed, ticks>>

\* end_giveaway: fetch_message, reply and edit; a Discord exception is
\* caught and logged, and end_giveaway returns.
GvAnnounce ==
    /\ gvPc = "announce"
    /\ \E outcome \in {"ok", "raises"} :
        IF outcome = "ok"
        THEN /\ announced' = [announced EXCEPT ![Head(gvDue)] = @ + 1]
             /\ UNCHANGED gvFailed
        ELSE /\ gvFailed' = gvFailed \cup {Head(gvDue)}
             /\ UNCHANGED announced
    /\ gvDue' = Tail(gvDue)
    /\ gvPc' = "iter"
    /\ UNCHANGED <<balanceVars, cogVars, pollVars, reminders, giveaways, channels, remLoop, remPc,
                   remDue, cmd, sent, remFailed, ticks>>

GvPassEnd ==
    /\ gvPc = "iter"
    /\ gvDue = <<>>
    /\ gvPc' = "sleep"
    /\ UNCHANGED <<balanceVars, cogVars, pollVars, reminders, giveaways, channels, remLoop, remPc,
                   remDue, gvDue, cmd, sent, announced, remFailed, gvFailed, ticks>>

\* 'giveaway end': the giveaway is looked up among those not ended and
\* end_giveaway is awaited.
GvCmdBegin ==
    /\ cmd.pc = "idle"
    /\ \E g \in GvIds, outcome \in {"ok", "db_error"} :
        /\ ~ giveaways[g].ended
        /\ LET res == EndGiveawaySync(g, outcome)
           IN  /\ giveaways' = res.giveaways
               /\ cmd' = IF res.then = "announce"
                         THEN [pc |-> "announce", id |-> g]
                         ELSE [pc |-> "idle", id |-> 0]
    /\ UNCHANGED <<balanceVars, cogVars, pollVars, reminders, channels, remLoop, remPc, remDue, gvPc,
                   gvDue, sent, announced, remFailed, gvFailed, ticks>>

GvCmdAnnounce ==
    /\ cmd.pc = "announce"
    /\ \E outcome \in {"ok", "raises"} :
        IF outcome = "ok"
        THEN /\ announced' = [announced EXCEPT ![cmd.id] = @ + 1]
             /\ UNCHANGED gvFailed
        ELSE /\ gvFailed' = gvFailed \cup {cmd.id}
             /\ UNCHANGED announced
    /\ cmd' = [pc |-> "idle", id |-> 0]
    /\ UNCHANGED <<balanceVars, cogVars, pollVars, reminders, giveaways, channels, remLoop, remPc,
                   remDue, gvPc, gvDue, sent, remFailed, ticks>>

\* A channel is deleted on the Discord side.
DeleteChannel ==
    /\ \E c \in channels : channels' = channels \ {c}
    /\ UNCHANGED <<balanceVars, cogVars, pollVars, reminders, giveaways, remLoop, remPc, remDue, gvPc,
                   gvDue, cmd, sent, announced, remFailed, gvFailed, ticks>>

\* datetime.utcnow() advances: by a poll interval, or by a long pause.
SchedSteps == {30, 3600}

SchedTick ==
    /\ ticks < MaxTicks
    /\ ticks' = ticks + 1
    /\ \E s \in SchedSteps : now' = now + s
    /\ UNCHANGED <<pollVars, cogVars, users, user_growid, transactions, cache, locks, held,
                   tasks, running, reminders, giveaways, channels, remLoop, remPc,
                   remDue, gvPc, gvDue, cmd, sent, announced, remFailed, gvFailed>>

SchedNext ==
    \/ RemPoll
    \/ RemTrigger
    \/ RemUpdate
    \/ RemPassEnd
    \/ GvPoll
    \/ GvEnd
    \/ GvAnnounce
    \/ GvPassEnd
    \/ GvCmdBegin
    \/ GvCmdAnnounce
    \/ DeleteChannel
    \/ SchedTick

SchedSpec == Init /\ [][SchedNext]_vars

\* 'reminder cancel <id>': the row of the caller is selected, marked inactive
\* and committed; the command answers "Reminder cancelled!".
CancelReminder ==
    /\ \E r \in RemIds :
        /\ reminders' = [reminders EXCEPT ![r].is_active = FALSE]
        /\ cancelled' = cancelled \cup {r}
    /\ UNCHANGED <<balanceVars, notCancelled, pollVars, giveaways, channels, remLoop, remPc,
                   remDue, gvPc, gvDue, cmd, sent, announced, remFailed, gvFailed,
                   ticks>>

\* The reminder loop and the cancel command.
CancelNext ==
    \/ RemPoll
    \/ RemTrigger
    \/ RemUpdate
    \/ RemPassEnd
    \/ CancelReminder
    \/ SchedTick

CancelSpec == Init /\ [][CancelNext]_vars

-----------------------------------------------------------------------------
(* The reminder commands of one user in one guild (cogs/reminders.py).  The  *)
(* commands await the database, so they interleave at their statements.     *)

\* SELECT COUNT(*) ... WHERE guild_id = ? AND user_id = ? AND is_active = TRUE
ActiveCount(rows) == Cardinality({i \in 1..Len(rows) : rows[i].is_active})

\* set_reminder, 'if data['count'] >= settings['max_reminders']'.
LimitReached(count, limit) == count >= limit

\* 'reminder set' and 'remindertemplate use', which calls set_reminder:
\* get_settings and the count of the active rows against the limit.
SetReminderCheck(t) ==
    /\ setPc[t] = "idle"
    /\ setPc' = [setPc EXCEPT ![t] =
            IF LimitReached(ActiveCount(user_reminders), max_reminders)
            THEN "idle" ELSE "checked"]
    /\ UNCHANGED <<user_reminders, max_reminders>>
    /\ UNCHANGED <<balanceVars, baseSchedVars, notRemCmd>>

\* set_reminder after the check: parse_time and the duration limit, which
\* can refuse the command, then the INSERT and the commit.
SetReminderInsert(t) ==
    /\ setPc[t] = "checked"
    /\ \E outcome \in {"ok", "refused"} :
        IF outcome = "ok"
        THEN /\ Len(user_reminders) < MaxRows
             /\ user_reminders' = Append(user_reminders,
                                    [repeat |-> FALSE, is_active |-> TRUE])
        ELSE UNCHANGED user_reminders
    /\ setPc' = [setPc EXCEPT ![t] = "idle"]
    /\ UNCHANGED max_reminders
    /\ UNCHANGED <<balanceVars, baseSchedVars, notRemCmd>>

\* 'reminder repeat': the interval and the time are parsed and the row is
\* inserted.
SetRepeatReminder ==
    /\ Len(user_reminders) < MaxRows
    /\ user_reminders' = Append(user_reminders,
                            [repeat |-> TRUE, is_active |-> TRUE])
    /\ UNCHANGED <<max_reminders, setPc>>
    /\ UNCHANGED <<balanceVars, baseSchedVars, notRemCmd>>

\* 'reminderset maxreminders <limit>'.
SetMaxReminders ==
    /\ \E limit \in 0..MaxReminders :
        max_reminders' = IF limit < 1 THEN max_reminders ELSE limit
    /\ UNCHANGED <<user_reminders, setPc>>
    /\ UNCHANGED <<balanceVars, baseSchedVars, notRemCmd>>

\* A row stops being active: 'reminder cancel', or a one-shot reminder fires.
DeactivateReminder ==
    /\ \E i \in 1..Len(user_reminders) :
        /\ user_reminders[i].is_active
        /\ user_reminders' = [user_reminders EXCEPT ![i].is_active = FALSE]
    /\ UNCHANGED <<max_reminders, setPc>>
    /\ UNCHANGED <<balanceVars, baseSchedVars, notRemCmd>>

LimitNext ==
    \/ \E t \in Tasks : SetReminderCheck(t)
    \/ \E t \in Tasks : SetReminderInsert(t)
    \/ SetRepeatReminder
    \/ SetMaxReminders
    \/ DeactivateReminder

LimitSpec == Init /\ [][LimitNext]_vars

-----------------------------------------------------------------------------
(* The entries and the winners of one giveaway (cogs/giveaway.py) *)

GwUsers == {"u1", "u2", "u3"}

\* giveaways.winners: the number of winners asked for by 'giveaway start'.
ConfiguredWinners == 2

Min(a, b) == IF a <= b THEN a ELSE b

\* n copies of x.
Copies(x, n) == [i \in 1..n |-> x]

\* end_giveaway: weighted_entries, every user_id repeated 'entries' times.
RECURSIVE WeightedEntries(_)
WeightedEntries(entries) ==
    IF DOMAIN entries = {} THEN <<>>
    ELSE LET u == CHOOSE x \in DOMAIN entries : TRUE
             rest == [v \in (DOMAIN entries) \ {u} |-> entries[v]]
         IN  Copies(u, entries[u]) \o WeightedEntries(rest)

\* Elements of a sequence.
Range(w) == {w[i] : i \in 1..Len(w)}

\* random.sample(w, k), then set(winners): k positions of w are drawn
\* without replacement; the announcement names the users found there.
Samples(w, k) ==
    {{w[i] : i \in P} : P \in {Q \in SUBSET (1..Len(w)) : Cardinality(Q) = k}}

\* on_raw_reaction_add: INSERT OR REPLACE with entries + 1, or 1 for a new
\* row; an sqlite error is rolled back.
EntriesAfterAdd(entries, u) ==
    [v \in (DOMAIN entries) \cup {u} |->
        IF v = u THEN (IF u \in DOMAIN entries THEN entries[u] + 1 ELSE 1)
        ELSE entries[v]]

ReactionAdd(u) ==
    /\ u \notin reacted
    /\ reacted' = reacted \cup {u}
    /\ \E outcome \in {"ok", "db_error"} :
        IF gwPhase = "open" /\ outcome = "ok"
        THEN /\ EntriesAfterAdd(giveaway_entries, u)[u] <= MaxEntries
             /\ giveaway_entries' = EntriesAfterAdd(giveaway_entries, u)
        ELSE UNCHANGED giveaway_entries
    /\ UNCHANGED <<gwPhase, gwWinners>>
    /\ UNCHANGED <<balanceVars, baseSchedVars, notGw>>

\* on_raw_reaction_remove: the row of the user is deleted; an sqlite error
\* is rolled back and the row stays.
ReactionRemove(u) ==
    /\ u \in reacted
    /\ reacted' = reacted \ {u}
    /\ \E outcome \in {"ok", "db_error"} :
        giveaway_entries' =
            IF gwPhase = "open" /\ outcome = "ok"
            THEN [v \in (DOMAIN giveaway_entries) \ {u} |-> giveaway_entries[v]]
            ELSE giveaway_entries
    /\ UNCHANGED <<gwPhase, gwWinners>>
    /\ UNCHANGED <<balanceVars, baseSchedVars, notGw>>

\* end_giveaway: the entries are read, the winners are drawn, the giveaway
\* is marked ended and the winners are announced (a Discord exception is
\* logged and nothing is announced).
EndGiveawayDraw ==
    /\ gwPhase = "open"
    /\ LET w == WeightedEntries(giveaway_entries)
           num_winners == Min(ConfiguredWinners, Cardinality(Range(w)))
       IN  \E winners \in Samples(w, num_winners), outcome \in {"ok", "raises"} :
            IF outcome = "ok"
            THEN gwPhase' = "announced" /\ gwWinners' = winners
            ELSE gwPhase' = "ended" /\ UNCHANGED gwWinners
    /\ UNCHANGED <<reacted, giveaway_entries>>
    /\ UNCHANGED <<balanceVars, baseSchedVars, notGw>>

DrawNext ==
    \/ \E u \in GwUsers : ReactionAdd(u)
    \/ \E u \in GwUsers : ReactionRemove(u)
    \/ EndGiveawayDraw

DrawSpec == Init /\ [][DrawNext]_vars

-----------------------------------------------------------------------------
(* The economy command give (cogs/economy.py).  get_balance and             *)
(* update_balance await the connection pool, so give commands interleave    *)
(* between the read of the sender's balance and the two updates.            *)

\* Economy.get_balance: the balance of the row, 0 without a row.
EcoBalance(u) == IF u \in DOMAIN economy THEN economy[u] ELSE 0

\* Economy.update_balance: INSERT ... ON CONFLICT DO UPDATE SET
\* balance = balance + amount.
EcoAfterUpdate(u, amount) ==
    [v \in (DOMAIN economy) \cup {u} |->
        IF v = u THEN EcoBalance(u) + amount ELSE economy[v]]

\* give_money up to the first update: the amount is tested, the balance of
\* the sender is read and compared with the amount.
GiveCheck(t) ==
    /\ givePc[t].pc = "idle"
    /\ \E from \in EcoUsers, to \in EcoUsers, amount \in GiveAmounts :
        givePc' = [givePc EXCEPT ![t] =
            IF amount <= 0 \/ EcoBalance(from) < amount
            THEN IdleGive
            ELSE [pc |-> "checked", from |-> from, to |-> to, amount |-> amount]]
    /\ UNCHANGED economy
    /\ UNCHANGED <<balanceVars, baseSchedVars, notEco>>

\* await self.update_balance(ctx.author.id, -amount); an exception of the
\* store ends the command.
GiveDebit(t) ==
    /\ givePc[t].pc = "checked"
    /\ \E outcome \in {"ok", "raises"} :
        IF outcome = "ok"
        THEN /\ economy' = EcoAfterUpdate(givePc[t].from, 0 - givePc[t].amount)
             /\ givePc' = [givePc EXCEPT ![t].pc = "debited"]
        ELSE /\ givePc' = [givePc EXCEPT ![t] = IdleGive]
             /\ UNCHANGED economy
    /\ UNCHANGED <<balanceVars, baseSchedVars, notEco>>

\* await self.update_balance(member.id, amount).
GiveCredit(t) ==
    /\ givePc[t].pc = "debited"
    /\ \E outcome \in {"ok", "raises"} :
        economy' = IF outcome = "ok"
                   THEN EcoAfterUpdate(givePc[t].to, givePc[t].amount)
                   ELSE economy
    /\ givePc' = [givePc EXCEPT ![t] = IdleGive]
    /\ UNCHANGED <<balanceVars, baseSchedVars, notEco>>

GiveNext ==
    \/ \E t \in Tasks : GiveCheck(t)
    \/ \E t \in Tasks : GiveDebit(t)
    \/ \E t \in Tasks : GiveCredit(t)

GiveSpec == Init /\ [][GiveNext]_vars

-----------------------------------------------------------------------------
(* The stock counts of the product service (ext/product_manager.py).  The   *)
(* service uses the synchronous sqlite3 driver: a call runs to its end.     *)

StockKey(product_code) == <<"stock_count", product_code>>

\* SELECT COUNT(*) FROM stock WHERE product_code = ? AND status = ?
AvailableCount(product_code) ==
    Cardinality({i \in DOMAIN stock :
        /\ stock[i].product_code = product_code
        /\ stock[i].status = "available"})

\* _get_cached: the value of a young entry; an old entry is deleted.
StockCacheHit(key) ==
    /\ key \in DOMAIN stock_cache
    /\ now - stock_cache[key].timestamp < StockCacheTimeout

\* The parameters of the statements are written (product_code(), ...):
\* product_code is a str, and calling a str raises TypeError.
EvalProductCode(product_code) == "TypeError"

\* add_stock_item: the INSERT, the commit and the invalidation of the count;
\* an exception is caught, rolled back and answered with False.
AddStockItem ==
    /\ \E product_code \in Products :
        IF EvalProductCode(product_code) = "TypeError"
        THEN /\ stockCall' = [op |-> "add_stock_item", product |-> product_code,
                              ok |-> FALSE, count |-> 0,
                              wrote |-> stockCall.wrote]
             /\ UNCHANGED <<stock, stock_cache>>
        ELSE /\ \E i \in StockIds \ DOMAIN stock :
                stock' = [j \in (DOMAIN stock) \cup {i} |->
                            IF j = i THEN [product_code |-> product_code,
                                           status |-> "available"]
                            ELSE stock[j]]
             /\ stock_cache' = CacheDel(stock_cache, StockKey(product_code))
             /\ stockCall' = [op |-> "add_stock_item", product |-> product_code,
                              ok |-> TRUE, count |-> 0,
                              wrote |-> stockCall.wrote \cup {product_code}]
    /\ UNCHANGED <<balanceVars, baseSchedVars, notStock>>

\* update_stock_status: the UPDATE (no row: TransactionError), the commit,
\* then the count of the row's product is taken out of the cache.
UpdateStockStatus ==
    /\ \E stock_id \in StockIds \cup {0}, status \in StockStatuses,
          outcome \in {"ok", "db_error"} :
        IF stock_id \in DOMAIN stock /\ outcome = "ok"
        THEN LET product_code == stock[stock_id].product_code
             IN  /\ stock' = [stock EXCEPT ![stock_id].status = status]
                 /\ stock_cache' = CacheDel(stock_cache, StockKey(product_code))
                 /\ stockCall' = [op |-> "update_stock_status",
                                  product |-> product_code, ok |-> TRUE,
                                  count |-> 0,
                                  wrote |-> stockCall.wrote \cup {product_code}]
        ELSE /\ stockCall' = [op |-> "update_stock_status", product |-> "",
                              ok |-> FALSE, count |-> 0,
                              wrote |-> stockCall.wrote]
             /\ UNCHANGED <<stock, stock_cache>>
    /\ UNCHANGED <<balanceVars, baseSchedVars, notStock>>

\* get_stock_count: a young cache entry is returned; otherwise the rows are
\* counted, the count is cached and returned; an exception is caught and
\* answered with 0.
GetStockCount ==
    /\ \E product_code \in Products :
        LET key == StockKey(product_code)
            answer(n) == [op |-> "get_stock_count", product |-> product_code,
                          ok |-> TRUE, count |-> n, wrote |-> stockCall.wrote]
        IN  IF StockCacheHit(key)
            THEN /\ stockCall' = answer(stock_cache[key].value)
                 /\ UNCHANGED stock_cache
            ELSE IF EvalProductCode(product_code) = "TypeError"
            THEN /\ stockCall' = answer(0)
                 /\ stock_cache' = CacheDel(stock_cache, key)
            ELSE /\ stockCall' = answer(AvailableCount(product_code))
                 /\ stock_cache' = CachePut(CacheDel(stock_cache, key), key,
                                            AvailableCount(product_code), now)
    /\ UNCHANGED stock
    /\ UNCHANGED <<balanceVars, baseSchedVars, notStock>>

StockNext ==
    \/ AddStockItem
    \/ UpdateStockStatus
    \/ GetStockCount

StockSpec == Init /\ [][StockNext]_vars

-----------------------------------------------------------------------------
(* Message XP (cogs/leveling.py).  add_xp uses the synchronous sqlite3      *)
(* driver; it leaves the event loop only inside handle_level_up, which      *)
(* awaits the Discord API.                                                  *)

Members == {"m1"}

\* The amount argument of add_xp.
XpAmounts == {50, 100}

\* add_xp: 'while xp >= 100 * (new_level + 1): new_level += 1'.
LevelFor(xp) == xp \div XpPerLevel

\* add_xp, "Check cooldown": the call returns at once.
InCooldown(m) ==
    /\ m \in DOMAIN xp_cooldowns
    /\ now < xp_cooldowns[m]

\* The row after INSERT ... ON CONFLICT DO UPDATE SET xp = xp + ?.
RowAfterXp(m, amount) ==
    IF m \in DOMAIN levels
    THEN [levels[m] EXCEPT !.xp = @ + amount, !.last_message_time = now]
    ELSE [xp |-> amount, level |-> 0, last_message_time |-> now]

\* "Set cooldown".
CooldownSet(m) ==
    [k \in (DOMAIN xp_cooldowns) \cup {m} |->
        IF k = m THEN now + LevelCooldown ELSE xp_cooldowns[k]]

\* add_xp up to the await of handle_level_up, or to its end when the level
\* does not change: the cooldown test, the upsert, the new level, the commit.
\* An sqlite error is rolled back.
AddXp(t) ==
    /\ xpPc[t] = "idle"
    /\ \E m \in Members, amount \in XpAmounts, outcome \in {"ok", "db_error"} :
        IF InCooldown(m) \/ outcome = "db_error"
        THEN UNCHANGED <<levels, xp_cooldowns, xpPc>>
        ELSE LET row == RowAfterXp(m, amount)
                 new_level == LevelFor(row.xp)
                 rows(r) == [k \in (DOMAIN levels) \cup {m} |->
                                IF k = m THEN r ELSE levels[k]]
             IN  /\ row.xp <= MaxXp
                 /\ IF new_level > row.level
                    THEN /\ levels' = rows([row EXCEPT !.level = new_level])
                         /\ xpPc' = [xpPc EXCEPT ![t] = m]
                         /\ UNCHANGED xp_cooldowns
                    ELSE /\ levels' = rows(row)
                         /\ xp_cooldowns' = CooldownSet(m)
                         /\ UNCHANGED xpPc
    /\ UNCHANGED <<balanceVars, baseSchedVars, notLvl>>

\* handle_level_up returns and add_xp sets the cooldown; an exception of the
\* Discord API leaves add_xp before that.
HandleLevelUp(t) ==
    /\ xpPc[t] # "idle"
    /\ \E outcome \in {"ok", "raises"} :
        xp_cooldowns' = IF outcome = "ok" THEN CooldownSet(xpPc[t])
                        ELSE xp_cooldowns
    /\ xpPc' = [xpPc EXCEPT ![t] = "idle"]
    /\ UNCHANGED levels
    /\ UNCHANGED <<balanceVars, baseSchedVars, notLvl>>

XpNext ==
    \/ \E t \in Tasks : AddXp(t)
    \/ \E t \in Tasks : HandleLevelUp(t)
    \/ SchedTick

XpSpec == Init /\ [][XpNext]_vars

-----------------------------------------------------------------------------
(* Music queue (cogs/music.py).  The class defines get_settings twice; the  *)
(* second definition, which uses db.pool, is the one bound to the class.    *)
(* The module never imports or assigns the name db.                         *)

\* The module binds db.
DbNameBound == "bound"

\* The evaluation of the global name db in music.py.
DbName == "NameError"

\* get_settings raises at 'async with db.pool.cursor()'.
GetSettingsRaises == DbName = "NameError"

\* get_settings(guild_id)['max_queue_size'] when it returns.
GetSettings(g) == max_queue_size[g]

\* ensure_voice: the bot joins the channel of the caller and starts an
\* empty queue, or uses the voice client it has.
VoiceAfterEnsure(g) == voice \cup {g}

QueuesAfterEnsure(g) ==
    IF g \in voice /\ g \in DOMAIN music_queues
    THEN music_queues
    ELSE [k \in (DOMAIN music_queues) \cup {g} |->
            IF k = g THEN <<>> ELSE music_queues[k]]

\* The queue and the player after the loop of playlist_play over k songs.
RECURSIVE PlaylistLoop(_, _, _)
PlaylistLoop(q, p, k) ==
    IF k = 0 THEN [queue |-> q, playing |-> p]
    ELSE IF p THEN PlaylistLoop(Append(q, k), TRUE, k - 1)
         ELSE PlaylistLoop(q, TRUE, k - 1)

\* play up to the search: ensure_voice, then 'await ...get_tracks(...)'.
PlaySearch(t) ==
    /\ musicPc[t] = "idle"
    /\ \E g \in Guilds :
        /\ voice' = VoiceAfterEnsure(g)
        /\ music_queues' = QueuesAfterEnsure(g)
        /\ musicPc' = [musicPc EXCEPT ![t] = g]
    /\ UNCHANGED <<playing, max_queue_size, musicCall>>
    /\ UNCHANGED <<balanceVars, baseSchedVars, notMusic>>

\* play after the search: no track found, or get_settings, then
\* "Add to queue or play".  Every exception is caught and reported.
PlayEnqueue(t) ==
    /\ musicPc[t] # "idle"
    /\ LET g == musicPc[t]
           done(r) == musicCall' = [op |-> "play", guild |-> g, result |-> r]
       IN  /\ g \in DOMAIN music_queues
           /\ \E found \in BOOLEAN :
               IF ~found
               THEN /\ done("no_songs")
                    /\ UNCHANGED <<music_queues, playing>>
               ELSE IF GetSettingsRaises
               THEN /\ done("error")
                    /\ UNCHANGED <<music_queues, playing>>
               ELSE IF g \in playing
               THEN IF Len(music_queues[g]) >= GetSettings(g)
                    THEN /\ done("queue_full")
                         /\ UNCHANGED <<music_queues, playing>>
                    ELSE /\ done("queued")
                         /\ music_queues' = [music_queues EXCEPT
                                                ![g] = Append(@, 0)]
                         /\ UNCHANGED playing
               ELSE /\ done("now_playing")
                    /\ playing' = playing \cup {g}
                    /\ UNCHANGED music_queues
    /\ musicPc' = [musicPc EXCEPT ![t] = "idle"]
    /\ UNCHANGED <<voice, max_queue_size>>
    /\ UNCHANGED <<balanceVars, baseSchedVars, notMusic>>

\* playlist play: ensure_voice, the songs of the playlist, the loop.
PlaylistPlay ==
    /\ \E g \in Guilds, songs \in 0..MaxSongs :
        LET q == QueuesAfterEnsure(g)
            after == PlaylistLoop(q[g], g \in playing, songs)
            done(r) == musicCall' = [op |-> "playlist_play", guild |-> g,
                                     result |-> r]
        IN  /\ voice' = VoiceAfterEnsure(g)
            /\ IF DbName = "NameError"
               THEN /\ done("error")
                    /\ music_queues' = q
                    /\ UNCHANGED playing
               ELSE IF songs = 0
               THEN /\ done("empty")
                    /\ music_queues' = q
                    /\ UNCHANGED playing
               ELSE /\ done("added")
                    /\ music_queues' = [q EXCEPT ![g] = after.queue]
                    /\ playing' = IF after.playing THEN playing \cup {g}
                                  ELSE playing
    /\ UNCHANGED <<max_queue_size, musicPc>>
    /\ UNCHANGED <<balanceVars, baseSchedVars, notMusic>>

\* stop: ensure_voice, the player stops, the queue is cleared.
Stop ==
    /\ \E g \in Guilds :
        /\ voice' = VoiceAfterEnsure(g)
        /\ music_queues' = [QueuesAfterEnsure(g) EXCEPT ![g] = <<>>]
        /\ playing' = playing \ {g}
        /\ musicCall' = [op |-> "stop", guild |-> g, result |-> "stopped"]
    /\ UNCHANGED <<max_queue_size, musicPc>>
    /\ UNCHANGED <<balanceVars, baseSchedVars, notMusic>>

\* handle_track_end: the next track of the queue is played; with an empty
\* queue the settings are read and the player disconnects.
HandleTrackEnd ==
    /\ \E g \in voice :
        LET done(r) == musicCall' = [op |-> "track_end", guild |-> g,
                                     result |-> r]
        IN  IF g \in DOMAIN music_queues /\ music_queues[g] # <<>>
            THEN /\ done("next")
                 /\ music_queues' = [music_queues EXCEPT ![g] = Tail(@)]
                 /\ playing' = playing \cup {g}
                 /\ UNCHANGED voice
            ELSE IF GetSettingsRaises
            THEN /\ done("error")
                 /\ playing' = playing \ {g}
                 /\ UNCHANGED <<music_queues, voice>>
            ELSE /\ done("finished")
                 /\ playing' = playing \ {g}
                 /\ voice' = voice \ {g}
                 /\ UNCHANGED music_queues
    /\ UNCHANGED <<max_queue_size, musicPc>>
    /\ UNCHANGED <<balanceVars, baseSchedVars, notMusic>>

MusicNext ==
    \/ \E t \in Tasks : PlaySearch(t)
    \/ \E t \in Tasks : PlayEnqueue(t)
    \/ PlaylistPlay
    \/ Stop
    \/ HandleTrackEnd

MusicSpec == Init /\ [][MusicNext]_vars

-----------------------------------------------------------------------------
(* Polls (cogs/polls.py) and the restart of the process.  A poll is closed  *)
(* by the coroutine of its 'poll create' command, which sleeps until the    *)
(* end time; the open polls are known from the dictionary active_polls.     *)

\* The duration argument of 'poll create', in seconds ('30s').
PollDurations == {30}

\* Mutant: the entry of the poll stays in active_polls.
ActivePollsKept(p) == active_polls

\* end_poll_message, 'del self.active_polls[message.id]'.
ActivePollsAfterEnd(p) == active_polls \ {p}

\* end_poll_message: a poll missing from active_polls is left alone;
\* otherwise its entry is deleted, the row is marked inactive and committed,
\* and the results are displayed by message.edit.
EndPollMessage(p, outcome) ==
    IF p \notin active_polls
    THEN [polls |-> polls, active_polls |-> active_polls, pollClosed |-> pollClosed]
    ELSE [polls |-> IF outcome = "db_error" THEN polls
                    ELSE [polls EXCEPT ![p].is_active = FALSE],
          active_polls |-> ActivePollsAfterEnd(p),
          pollClosed |-> IF outcome = "ok"
                         THEN [pollClosed EXCEPT ![p] = @ + 1]
                         ELSE pollClosed]

\* 'poll create' with a duration: the row is inserted and committed, the
\* poll is entered in active_polls and schedule_poll_end starts to sleep.
CreatePoll ==
    /\ Cardinality(DOMAIN polls) < MaxPolls
    /\ \E d \in PollDurations :
        LET p == Cardinality(DOMAIN polls) + 1
        IN  /\ polls' = [q \in (DOMAIN polls) \cup {p} |->
                            IF q = p THEN [end_time |-> now + d, is_active |-> TRUE]
                            ELSE polls[q]]
            /\ active_polls' = active_polls \cup {p}
            /\ pollTimers' = pollTimers \cup {p}
    /\ UNCHANGED <<balanceVars, cogVars, reminders, giveaways, channels, remLoop, remPc,
                   remDue, gvPc, gvDue, cmd, sent, announced, remFailed, gvFailed,
                   ticks, pollClosed, restarts, pollEndCalls>>

\* schedule_poll_end: the sleep is over; end_poll_message.
PollTimerFires ==
    /\ \E p \in pollTimers, outcome \in {"ok", "db_error", "edit_raises"} :
        /\ polls[p].end_time <= now
        /\ pollTimers' = pollTimers \ {p}
        /\ LET res == EndPollMessage(p, outcome)
           IN  /\ polls' = res.polls
               /\ active_polls' = res.active_polls
               /\ pollClosed' = res.pollClosed
        /\ pollEndCalls' = [pollEndCalls EXCEPT ![p] = @ + 1]
    /\ UNCHANGED <<balanceVars, cogVars, reminders, giveaways, channels, remLoop, remPc,
                   remDue, gvPc, gvDue, cmd, sent, announced, remFailed, gvFailed,
                   ticks, restarts>>

\* 'poll end': refused unless the poll is in active_polls.
EndPollCmd ==
    /\ \E p \in active_polls, outcome \in {"ok", "db_error", "edit_raises"} :
        LET res == EndPollMessage(p, outcome)
        IN  /\ polls' = res.polls
            /\ active_polls' = res.active_polls
            /\ pollClosed' = res.pollClosed
            /\ pollEndCalls' = [pollEndCalls EXCEPT ![p] = @ + 1]
    /\ UNCHANGED <<balanceVars, cogVars, reminders, giveaways, channels, remLoop, remPc,
                   remDue, gvPc, gvDue, cmd, sent, announced, remFailed, gvFailed,
                   ticks, pollTimers, restarts>>

\* The process is restarted: the tables stay, every coroutine and every
\* object in memory is gone, the cogs are constructed again and their task
\* loops are started.
Restart ==
    /\ restarts < MaxRestarts
    /\ restarts' = restarts + 1
    /\ active_polls' = {}
    /\ pollTimers' = {}
    /\ remLoop' = "alive"
    /\ remPc' = "sleep"
    /\ remDue' = <<>>
    /\ gvPc' = "sleep"
    /\ gvDue' = <<>>
    /\ cmd' = [pc |-> "idle", id |-> 0]
    /\ cache' = <<>>
    /\ locks' = <<>>
    /\ held' = {}
    /\ tasks' = [t \in Tasks |-> IdleTask]
    /\ running' = 0
    /\ UNCHANGED <<cogVars, now, users, user_growid, transactions, reminders, giveaways,
                   polls, channels, sent, announced, remFailed, gvFailed, ticks,
                   pollClosed, pollEndCalls>>

\* The polls alone: the command that creates them, the two ways to end
\* them, the clock and the restart.
PollNext ==
    \/ CreatePoll
    \/ PollTimerFires
    \/ EndPollCmd
    \/ SchedTick
    \/ Restart

PollSpec == Init /\ [][PollNext]_vars

\* The scheduled actions alone: the two task loops, the poll timers, the
\* clock and the restart.
DurableNext ==
    \/ RemPoll
    \/ RemTrigger
    \/ RemUpdate
    \/ RemPassEnd
    \/ GvPoll
    \/ GvEnd
    \/ GvAnnounce
    \/ GvPassEnd
    \/ SchedTick
    \/ CreatePoll
    \/ PollTimerFires
    \/ EndPollCmd
    \/ Restart

\* The event loop runs every coroutine that can go on, the task loops start
\* a pass every 30 seconds, and time passes.
Fairness ==
    /\ WF_vars(RemPoll) /\ WF_vars(RemTrigger) /\ WF_vars(RemUpdate)
    /\ WF_vars(RemPassEnd)
    /\ WF_vars(GvPoll) /\ WF_vars(GvEnd) /\ WF_vars(GvAnnounce)
    /\ WF_vars(GvPassEnd)
    /\ WF_vars(PollTimerFires)
    /\ WF_vars(SchedTick)

DurableSpec == Init /\ [][DurableNext]_vars /\ Fairness

-----------------------------------------------------------------------------
(* Properties of the balance service *)

UpdateTasks == {t \in Tasks : tasks[t].op = "update_balance"}

\* The task's UPDATE and INSERT have been committed.
Committed(t) ==
    /\ tasks[t].op = "update_balance"
    /\ tasks[t].pc = "committed" \/ tasks[t].ret = "value"

\* The task is inside update_balance, holding the account's lock.
InFlight(t) ==
    /\ tasks[t].op = "update_balance"
    /\ tasks[t].pc \in {"read", "committed", "except"}

Floor0(x) == IF x < 0 THEN 0 ELSE x

\* A delta applied to a balance, each denomination clamped at zero.
Applied(b, d) ==
    [wl |-> Floor0(b.wl + d.wl), dl |-> Floor0(b.dl + d.dl),
     bgl |-> Floor0(b.bgl + d.bgl)]

Snapshot(b) == <<b.wl, b.dl, b.bgl>>

IsPrefix(s, r) == Len(s) <= Len(r) /\ SubSeq(r, 1, Len(s)) = s

\* C1: whatever update_balance calls are made, in whatever order, every
\* stored denomination of every account is >= 0 in every reachable state.
C1_BalancesNonNegative ==
    \A g \in DOMAIN users :
        users[g].wl >= 0 /\ users[g].dl >= 0 /\ users[g].bgl >= 0

\* A committed update whose delta would have taken a denomination below zero.
C1_Witness ==
    \E t \in Tasks :
        /\ Committed(t)
        /\ tasks[t].ret = "value"
        /\ tasks[t].old.wl + tasks[t].delta.wl < 0
        /\ users[tasks[t].key].wl = 0

C3_OneMutationInFlight ==
    \A t1, t2 \in Tasks :
        (t1 # t2 /\ InFlight(t1) /\ InFlight(t2))
        => tasks[t1].key # tasks[t2].key

\* A mutation is in flight under a lock constructed after cleanup() dropped
\* the lock that an earlier mutation of the same account had used.
C3_Witness ==
    \E t, u \in Tasks :
        /\ t # u
        /\ tasks[t].op = "update_balance" /\ tasks[t].pc = "read"
        /\ tasks[t].made
        /\ tasks[u].op = "update_balance" /\ tasks[u].pc = "done"
        /\ tasks[u].key = tasks[t].key

\* The step in which task t commits.
CommitsNow(t) ==
    /\ tasks[t].op = "update_balance"
    /\ tasks[t].pc = "read"
    /\ tasks'[t].pc = "committed"

\* C4: the log only grows, by one row at a time and only when an
\* update_balance commits; the row of a commit carries the balance stored
\* just before it as old_balance and the balance stored just after it as
\* new_balance; the rows number the committed calls.
C4_OneRowPerMutation ==
    [][ /\ IsPrefix(transactions, transactions')
        /\ Len(transactions') <= Len(transactions) + 1
        /\ Len(transactions') = Len(transactions) + 1
            => \E t \in Tasks : CommitsNow(t)
        /\ \A t \in Tasks : CommitsNow(t) =>
            /\ Len(transactions') = Len(transactions) + 1
            /\ transactions'[Len(transactions')] =
                [growid |-> tasks[t].key,
                 old_balance |-> Snapshot(users[tasks[t].key]),
                 new_balance |-> Snapshot(users'[tasks[t].key])]
        /\ Len(transactions') = Cardinality({t \in Tasks : Committed(t)'})
      ]_vars

\* Two rows are logged, the second starting from the balance the first left.
C4_Witness ==
    /\ Len(transactions) = 2
    /\ transactions[1].old_balance # transactions[1].new_balance
    /\ transactions[2].old_balance = transactions[1].new_balance
    /\ transactions[2].new_balance = Snapshot(users[transactions[2].growid])
    /\ \A t \in Tasks : tasks[t].ret = "value"

\* The step in which a get_balance or get_growid call runs.
ReadsNow(t) ==
    /\ tasks[t].op \in {"get_balance", "get_growid"}
    /\ tasks[t].pc = "start"
    /\ tasks'[t].pc = "done"

ReadKey(t) ==
    IF tasks[t].op = "get_balance" THEN <<"balance", tasks[t].key>>
    ELSE <<"growid", tasks[t].key>>

\* The cache holds an entry for the key that is younger than the timeout.
Young(key) == key \in DOMAIN cache /\ now - cache[key].timestamp < CacheTimeout

Returned(t) == IF tasks[t].op = "get_balance" THEN tasks[t].bal ELSE tasks[t].gid

\* The read is served from the cache: no store read, the cached value is
\* returned and the cache stays as it is.
ServedFromCache(t) ==
    /\ tasks'[t].reads = 0
    /\ tasks'[t].fills = 0
    /\ tasks'[t].ret = "value"
    /\ Returned(t)' = cache[ReadKey(t)].value
    /\ cache' = cache

\* C7 as stated: a read whose entry is younger than the TTL is served from
\* the cache; a read whose entry is absent or expired performs exactly one
\* store read and repopulates the cache exactly once (store failures left
\* aside).
C7_Original ==
    [][ \A t \in Tasks : ReadsNow(t) =>
            IF Young(ReadKey(t)) THEN ServedFromCache(t)
            ELSE tasks'[t].err = "none"
                    => tasks'[t].reads = 1 /\ tasks'[t].fills = 1
      ]_vars

\* C7 amended: a read whose entry is younger than the TTL is served from the
\* cache without a store read; a read whose entry is absent or expired makes
\* at most one store read, exactly one unless the connection cannot be
\* opened, and repopulates the cache exactly once when that read finds the
\* row; when the row is missing or the store fails nothing is cached.
C7_CacheReadPolicy ==
    [][ \A t \in Tasks : ReadsNow(t) =>
            IF Young(ReadKey(t)) THEN ServedFromCache(t)
            ELSE /\ tasks'[t].reads <= 1
                 /\ tasks'[t].ret # "raised" => tasks'[t].reads = 1
                 /\ tasks'[t].fills = 1 <=> tasks'[t].ret = "value"
                 /\ tasks'[t].fills = 1 =>
                        /\ ReadKey(t) \in DOMAIN cache'
                        /\ cache'[ReadKey(t)] =
                             [value |-> Returned(t)', timestamp |-> now]
                 /\ tasks'[t].fills = 0 => ReadKey(t) \notin DOMAIN cache'
      ]_vars

\* A read found its entry expired, read the store once and cached the row.
C7_Witness ==
    \E t \in Tasks :
        /\ tasks[t].op \in {"get_balance", "get_growid"}
        /\ tasks[t].pc = "done"
        /\ tasks[t].had = "expired"
        /\ tasks[t].reads = 1
        /\ tasks[t].fills = 1
        /\ ReadKey(t) \in DOMAIN cache
        /\ cache[ReadKey(t)].timestamp = now

\* A step of update_balance on its failure path: the step that raises, and
\* the return of None that follows it.
FailureStep(t) ==
    /\ tasks[t].op = "update_balance"
    /\ tasks'[t] # tasks[t]
    /\ tasks'[t].pc = "except" \/ tasks[t].pc = "except"

\* C9: a step of a failing update_balance (account missing, store error on
\* the UPDATE, the INSERT or the commit, and the return of None) changes
\* neither the stored balances nor the log nor the cache, a call returns None
\* only along that path, and a balance is never written without its log row.
C9_FailureChangesNothing ==
    [][ /\ \A t \in Tasks : FailureStep(t) =>
            /\ users' = users
            /\ transactions' = transactions
            /\ cache' = cache
        /\ \A t \in Tasks :
            (tasks[t].op = "update_balance" /\ tasks'[t].ret = "none"
                /\ tasks[t].ret # "none") => tasks[t].pc = "except"
        /\ users' # users => Len(transactions') = Len(transactions) + 1
      ]_vars

\* An update_balance of an existing account read the row, computed a new
\* balance, failed in a later statement and returned None; the store, the
\* log and the cache are as they were at the start.
C9_Witness ==
    \E t \in Tasks :
        /\ tasks[t].op = "update_balance"
        /\ tasks[t].pc = "done"
        /\ tasks[t].ret = "none"
        /\ tasks[t].key \in DOMAIN users
        /\ tasks[t].new # tasks[t].old
        /\ users[tasks[t].key] = tasks[t].old
        /\ transactions = <<>>
        /\ <<"balance", tasks[t].key>> \notin DOMAIN cache

\* C10: whenever no update_balance is in flight on an account, an unexpired
\* cache entry balance_X holds the balance stored for X; and the balance a
\* finished get_balance returned is the balance that was stored when it
\* returned.
C10_CacheAgreesWithStore ==
    /\ \A g \in GrowIds :
        ((\A t \in Tasks : InFlight(t) => tasks[t].key # g)
            /\ Young(<<"balance", g>>))
        => /\ g \in DOMAIN users
           /\ cache[<<"balance", g>>].value = users[g]
    /\ \A t \in Tasks :
        (tasks[t].op = "get_balance" /\ tasks[t].ret = "value")
        => tasks[t].bal = tasks[t].seen

\* A get_balance that started after an update_balance had returned was
\* served from the cache and returned the balance of that update.
C10_Witness ==
    \E t, u \in Tasks :
        /\ tasks[u].op = "update_balance" /\ tasks[u].ret = "value"
        /\ tasks[u].new # tasks[u].old
        /\ tasks[t].op = "get_balance" /\ tasks[t].ret = "value"
        /\ tasks[t].key = tasks[u].key
        /\ tasks[t].had = "young"
        /\ tasks[t].bal = tasks[u].new

-----------------------------------------------------------------------------
(* Properties of the schedulers *)

\* The poll pass of check_giveaways is done with due giveaway g in this step.
PassHandledGiveaway(g) ==
    /\ gvPc \in {"iter", "announce"}
    /\ gvDue # <<>>
    /\ Head(gvDue) = g
    /\ gvDue' = Tail(gvDue)

\* The poll pass of check_reminders is done with due reminder r in this step.
PassHandledReminder(r) ==
    /\ remPc \in {"iter", "sent"}
    /\ remDue # <<>>
    /\ Head(remDue).id = r
    /\ remDue' # remDue

OneShot(r) == reminders[r].repeat_interval = NoRepeat

\* C5 (as stated): a one-shot scheduled action executes its side effect
\* exactly once: when a poll pass is done with a due giveaway and leaves it
\* ended, or is done with a due one-shot reminder and leaves it inactive or
\* the loop stopped, the side effect has run once, and it never runs twice.
C5_Original ==
    [][ /\ \A g \in GvIds :
            /\ (PassHandledGiveaway(g) /\ giveaways'[g].ended /\ cmd.id # g)
                    => announced'[g] = 1
            /\ announced'[g] <= 1
        /\ \A r \in RemIds :
            OneShot(r) =>
                /\ (PassHandledReminder(r)
                    /\ (~ reminders'[r].is_active \/ remLoop' = "stopped"))
                        => sent'[r] = 1
                /\ sent'[r] <= 1 ]_vars

\* C6 (as stated): when the side effect of a due row raises during a poll
\* pass, the poll loop stays alive and the other due rows of the pass are
\* still to be processed.
C6_Original ==
    [][ /\ (remFailed' # remFailed)
            => (remLoop' = "alive" /\ remDue' = Tail(remDue))
        /\ (gvFailed' # gvFailed /\ gvPc = "announce")
            => gvDue' = Tail(gvDue) ]_vars

\* The repeat interval in seconds, from the command's syntax: <n>h, <n>d, <n>w.
C8_Seconds(iv) ==
    iv.n * (CASE iv.unit = "h" -> 60 * 60
              [] iv.unit = "d" -> 24 * 60 * 60
              [] iv.unit = "w" -> 7 * 24 * 60 * 60)

\* Reminder r has been sent and its row is updated in this step.
FiresRepeating(r) ==
    /\ remPc = "sent"
    /\ remPc' = "iter"
    /\ Head(remDue).id = r
    /\ ~ OneShot(r)

\* C8: when a repeating reminder fires, its stored end_time becomes the
\* previous stored end_time plus the repeat interval, whatever the time of the
\* poll pass, and the firing leaves is_active as it was (active); the stored
\* end_time changes in no other step.
C8_RepeatFromPreviousEndTime ==
    [][ \A r \in RemIds :
            /\ FiresRepeating(r) =>
                /\ reminders'[r].end_time =
                        reminders[r].end_time + C8_Seconds(reminders[r].repeat_interval)
                /\ reminders[r].is_active
                /\ reminders'[r].is_active
                /\ reminders'[r].last_triggered = now
            /\ (reminders'[r].end_time # reminders[r].end_time)
                    => FiresRepeating(r) ]_vars

\* A repeating reminder fired by a pass that ran after its due time: it has
\* been moved by one interval from its stored end_time and is still active.
C8_Witness ==
    /\ sent[2] = 1
    /\ reminders[2].last_triggered > InitReminders[2].end_time
    /\ reminders[2].end_time = InitReminders[2].end_time + 3600
    /\ reminders[2].is_active

-----------------------------------------------------------------------------
(* Properties of the durable schedule *)

\* The row of poll p is active.
PollOpen(p) == IF p \in DOMAIN polls THEN polls[p].is_active ELSE FALSE

\* The end time of poll p has passed.
PollDue(p) == IF p \in DOMAIN polls THEN polls[p].end_time <= now ELSE FALSE

\* C11 (as stated, for the poll close): a poll that is pending when the
\* process has been restarted is still closed once its end time has passed.
C11_Original ==
    \A p \in PollIds :
        (restarts > 0 /\ PollOpen(p) /\ PollDue(p)) ~> (~ PollOpen(p))

\* C12 (as stated, for the one-shot reminder): under fair polling every
\* active one-shot reminder whose end time has passed is eventually completed
\* (is_active false); it does not stay pending forever.
C12_Original ==
    \A r \in RemIds :
        (OneShot(r) /\ reminders[r].is_active /\ reminders[r].end_time <= now)
        ~> (~ reminders[r].is_active)

-----------------------------------------------------------------------------
(* Further properties of the balance service *)

\* Task t is about to take the lock of account g's balance key.
AboutToLock(t, g) ==
    /\ tasks[t].op \in {"update_balance", "get_balance"}
    /\ tasks[t].pc = "start"
    /\ tasks[t].key = g

\* C13: a call of update_balance or get_balance on account X never waits on
\* a lock held for another account: whenever the lock it is about to take is
\* held, the holder is a mutation of X itself; while mutations of other
\* accounts only hold their locks, the lock of X is free.
C13_NoCrossAccountBlocking ==
    \A t \in Tasks, g \in GrowIds :
        (AboutToLock(t, g) /\ LockOf(BalKey(g)) \in held)
        => \E u \in Tasks \ {t} :
                /\ InFlight(u)
                /\ tasks[u].key = g
                /\ tasks[u].lock = LockOf(BalKey(g))

\* A mutation of alice holds its lock while a call on bob is about to take
\* bob's lock, which is free.
C13_Witness ==
    \E t, u \in Tasks :
        /\ InFlight(u) /\ tasks[u].key = "alice"
        /\ tasks[u].lock \in held
        /\ AboutToLock(t, "bob")
        /\ LockOf(BalKey("bob")) \notin held

\* Task t is an update_balance call on an account that does not exist.
OnMissingAccount(t) ==
    /\ tasks[t].op = "update_balance"
    /\ tasks[t].key \notin DOMAIN users

\* C14: update_balance on an account id that does not exist fails: no step
\* of the call creates an account, appends a transaction record or changes a
\* balance or the cache, the call never gets past the SELECT, and it ends by
\* returning None, the failure outcome of the service.
C14_AccountNotFound ==
    [][ \A t \in Tasks :
            (OnMissingAccount(t) /\ tasks'[t] # tasks[t])
            => /\ users' = users
               /\ transactions' = transactions
               /\ cache' = cache
               /\ tasks'[t].pc \in {"except", "done"}
               /\ tasks'[t].pc = "done" => tasks'[t].ret = "none" ]_vars

\* update_balance on bob, who has no account, has returned None while the
\* accounts and the log are as they were.
C14_Witness ==
    \E t \in Tasks :
        /\ tasks[t].op = "update_balance"
        /\ tasks[t].key = "bob"
        /\ tasks[t].pc = "done"
        /\ tasks[t].ret = "none"
        /\ DOMAIN users = {"alice"}
        /\ \A i \in 1..Len(transactions) : transactions[i].growid # "bob"

\* C15 (as stated): register_user with an account id that already exists
\* fails with the duplicate-account error and changes neither the accounts
\* table nor the identity links.
C15_Original ==
    [][ \A t \in Tasks :
            (/\ tasks[t].op = "register_user"
             /\ tasks[t].pc = "start"
             /\ tasks'[t].pc = "done"
             /\ tasks[t].growid \in DOMAIN users)
            => /\ tasks'[t].ret = "false"
               /\ users' = users
               /\ user_growid' = user_growid ]_vars

\* C16: the lock taken by update_balance, get_balance, get_growid and
\* register_user is released on every exit path: a lock is held only by an
\* update_balance call that has not ended yet, so no ended call blocks a
\* later one; and under fair scheduling every update_balance call that has
\* been issued eventually ends.
C16_LockReleased ==
    /\ [](\A l \in held : \E u \in Tasks : InFlight(u) /\ tasks[u].lock = l)
    /\ \A t \in Tasks :
        (tasks[t].op = "update_balance" /\ tasks[t].pc = "start")
        ~> (tasks[t].pc = "done")

\* An update_balance of alice has ended by the failure path and a later
\* update_balance of alice has taken the same lock object.
C16_Witness ==
    \E t, u \in Tasks :
        /\ tasks[u].op = "update_balance" /\ tasks[u].pc = "done"
        /\ tasks[u].ret = "none" /\ tasks[u].key = "alice"
        /\ InFlight(t) /\ tasks[t].key = "alice"
        /\ tasks[t].lock = tasks[u].lock
        /\ tasks[t].lock \in held

\* Task t issues addbal or removebal in this step.
IssuesAdminCommand(t) == tasks[t].pc = "idle" /\ tasks'[t].cmd # ""

\* The step leaves the balances, the log and the cache as they were.
BalanceStateUnchanged ==
    users' = users /\ transactions' = transactions /\ cache' = cache

\* C18 (as stated): addbal or removebal with amount <= 0, let through to its
\* body, is rejected with the invalid-amount message and update_balance is
\* not called.
C18_Original ==
    [][ \A t \in Tasks :
            (/\ IssuesAdminCommand(t)
             /\ tasks'[t].amount <= 0
             /\ tasks'[t].ret \notin {"busy", "denied"})
            => /\ tasks'[t].ret = "invalid_amount"
               /\ tasks'[t].op # "update_balance"
               /\ BalanceStateUnchanged ]_vars

\* C18 (amended): addbal or removebal with amount <= 0 never calls
\* update_balance and leaves balances, log and cache unchanged; when the
\* command is let through to its body it is rejected with the invalid-amount
\* message if the currency is a known one, and with the invalid-currency
\* message otherwise.
C18_NonPositiveAmountRejected ==
    [][ \A t \in Tasks :
            (IssuesAdminCommand(t) /\ tasks'[t].amount <= 0)
            => /\ tasks'[t].op = "admin_command"
               /\ tasks'[t].pc = "done"
               /\ BalanceStateUnchanged
               /\ tasks'[t].ret =
                    IF tasks'[t].ret \in {"busy", "denied"} THEN tasks'[t].ret
                    ELSE IF tasks'[t].currency \in DOMAIN CURRENCY_RATES
                    THEN "invalid_amount" ELSE "invalid_currency" ]_vars

\* addbal 0 WL has been rejected with the invalid-amount message after an
\* addbal 2 WL went through, and alice's balance is the one that left.
C18_Witness ==
    \E t, u \in Tasks :
        /\ tasks[t].cmd = "addbal" /\ tasks[t].amount = 0
        /\ tasks[t].currency = "WL" /\ tasks[t].ret = "invalid_amount"
        /\ tasks[u].cmd = "addbal" /\ tasks[u].amount = 2
        /\ tasks[u].ret = "value"
        /\ users["alice"] = tasks[u].new
        /\ Len(transactions) = 1

\* A call of get_growid, get_balance or update_balance ends at this step
\* after a failure of the store (the connection or a statement).
EndsOnStoreFailure(t) ==
    \/ /\ tasks[t].op \in {"get_balance", "get_growid"}
       /\ tasks[t].pc = "start"
       /\ tasks'[t].pc = "done"
       /\ tasks'[t].err # "none"
    \/ /\ tasks[t].op = "update_balance"
       /\ tasks[t].pc = "except"
       /\ tasks'[t].pc = "done"

\* C19 (as stated): a call of get_growid, get_balance or update_balance that
\* meets a failure of the store, a failed connection included, raises nothing:
\* it returns None and leaves the cache as it was.
C19_Original ==
    [][\A t \in Tasks :
        EndsOnStoreFailure(t) =>
            /\ tasks'[t].ret = "none"
            /\ cache' = cache]_vars

-----------------------------------------------------------------------------
(* The balance computation of update_balance over bounded inputs *)

Coins == 0..MaxCoin

\* The stored balances the computation is run on.
CalcBalances == {Balance(w, d, b) : w \in Coins, d \in Coins, b \in Coins}

\* The (wl, dl, bgl) arguments: a debit that can overdraw, nothing, a credit.
CalcSteps == {-2, 0, 1}
CalcDeltas == {Balance(w, d, b) : w \in CalcSteps, d \in CalcSteps, b \in CalcSteps}

\* As Init, with the balance of "alice" drawn from CalcBalances.
CalcInit ==
    /\ InitSched
    /\ now = 0
    /\ users \in {[g \in {"alice"} |-> b] : b \in CalcBalances}
    /\ user_growid = [d \in {"d1"} |-> "alice"]
    /\ transactions = <<>>
    /\ cache = <<>>
    /\ locks = <<>>
    /\ held = {}
    /\ tasks = [t \in Tasks |-> IdleTask]
    /\ running = 0

\* One update_balance call on the account, its arguments drawn from CalcDeltas.
CalcCall(t) ==
    /\ CanIssue(t)
    /\ \A u \in Tasks : tasks[u].pc = "idle"
    /\ \E d \in CalcDeltas :
        tasks' = [tasks EXCEPT ![t] =
            [IdleTask EXCEPT !.op = "update_balance", !.key = "alice",
                             !.delta = d, !.pc = "start"]]
    /\ UNCHANGED <<now, users, user_growid, transactions, cache, locks, held,
                   running, schedVars>>

CalcNext ==
    \E t \in Tasks :
        \/ CalcCall(t)
        \/ UbBegin(t)
        \/ UbWrite(t)
        \/ UbReturn(t)
        \/ UbFail(t)

CalcSpec == CalcInit /\ [][CalcNext]_vars

\* The call of task t has computed its new balance.
HasComputed(t) ==
    /\ tasks[t].op = "update_balance"
    /\ \/ tasks[t].pc \in {"read", "committed"}
       \/ tasks[t].pc = "done" /\ tasks[t].ret = "value"

\* C20: update_balance computes each denomination on its own as
\* max(0, current + delta): the new value of a denomination is the same for
\* every balance and delta that agree with the call's on that denomination,
\* a denomination whose delta is 0 keeps its value, and the computed balance
\* is the one that gets stored.
C20_PerDenomination ==
    \A t \in Tasks :
        HasComputed(t) =>
            LET o == tasks[t].old
                d == tasks[t].delta
                n == tasks[t].new
            IN  /\ tasks[t].pc = "read" => o = users[tasks[t].key]
                /\ n.wl = Max(0, o.wl + d.wl)
                /\ n.dl = Max(0, o.dl + d.dl)
                /\ n.bgl = Max(0, o.bgl + d.bgl)
                /\ \A c \in CalcBalances, e \in CalcDeltas :
                    /\ (c.wl = o.wl /\ e.wl = d.wl) => NewBalance(c, e).wl = n.wl
                    /\ (c.dl = o.dl /\ e.dl = d.dl) => NewBalance(c, e).dl = n.dl
                    /\ (c.bgl = o.bgl /\ e.bgl = d.bgl) => NewBalance(c, e).bgl = n.bgl
                /\ d.wl = 0 => n.wl = o.wl
                /\ d.dl = 0 => n.dl = o.dl
                /\ d.bgl = 0 => n.bgl = o.bgl
                /\ tasks[t].pc # "read" => users[tasks[t].key] = n

\* A stored update that floors one denomination at zero, leaves one alone
\* and raises the third.
C20_Witness ==
    \E t \in Tasks :
        /\ tasks[t].op = "update_balance"
        /\ tasks[t].pc = "done"
        /\ tasks[t].ret = "value"
        /\ tasks[t].old = Balance(1, 2, 0)
        /\ tasks[t].delta = Balance(-2, 0, 1)
        /\ users["alice"] = Balance(0, 2, 1)

-----------------------------------------------------------------------------
(* Further properties of the schedulers *)

\* The rows that leave the due list of the pass at this step.
LeavesPass(i) ==
    /\ i \in 1..Len(remDue)
    /\ \/ remDue' = <<>>
       \/ i = 1 /\ remDue' = Tail(remDue)

\* C21 (as stated): in a poll pass every due row fires exactly once: when a
\* selected row leaves the pass its message has been sent once more than when
\* the pass selected it.
C21_Original ==
    [][\A i \in 1..Len(remDue) :
        (remDue' # remDue /\ LeavesPass(i)) =>
            sent'[remDue[i].id] = remDue[i].sent0 + 1]_vars

-----------------------------------------------------------------------------
(* Properties of the command resetuser *)

\* The update_balance call of a resetuser command has written its balance.
ResetWritten(t) ==
    /\ tasks[t].cmd = "resetuser"
    /\ tasks[t].op = "update_balance"
    /\ \/ tasks[t].pc = "committed"
       \/ tasks[t].pc = "done" /\ tasks[t].ret = "value"

\* C22: whenever resetuser gets through, the balance its update_balance call
\* writes is zero in the three denominations, whatever other updates of the
\* account run before, between or after its steps: at the commit the stored
\* balance of the account is (0, 0, 0).
C22_ResetWritesZero ==
    \A t \in Tasks :
        ResetWritten(t) =>
            /\ tasks[t].new = Zero
            /\ tasks[t].pc = "committed" => users[tasks[t].key] = Zero

\* A reset of an account that another update had changed before, whose
\* balance was not zero in any denomination touched by that update.
C22_Witness ==
    \E t, u \in Tasks :
        /\ ResetWritten(t)
        /\ tasks[t].pc = "done"
        /\ tasks[t].old = Balance(2, 0, 3)
        /\ tasks[u].cmd = ""
        /\ tasks[u].op = "update_balance"
        /\ tasks[u].key = tasks[t].key
        /\ tasks[u].ret = "value"
        /\ Len(transactions) = 2

-----------------------------------------------------------------------------
(* Properties of the reminder commands *)

\* C23 (as stated): once 'reminder cancel' has completed for a reminder, no
\* message is sent for that reminder any more, even when a poll pass had
\* selected it as due before the cancellation.
C23_Original ==
    [][\A r \in RemIds : r \in cancelled => sent'[r] = sent[r]]_vars

\* C24 (as stated): the number of active reminders of the user in the guild
\* is at most the max_reminders setting of the guild, in every reachable
\* state.
C24_Original ==
    ActiveCount(user_reminders) <= max_reminders

-----------------------------------------------------------------------------
(* Properties of the giveaway draw *)

\* C25 (as stated): when a giveaway with at least one entry ends, the
\* announced winners are entrants of the giveaway, and there are exactly
\* min(configured winners, number of distinct entrants) of them (as a set
\* they are distinct).
C25_Original ==
    (gwPhase = "announced" /\ DOMAIN giveaway_entries # {}) =>
        /\ gwWinners \subseteq DOMAIN giveaway_entries
        /\ Cardinality(gwWinners) =
                Min(ConfiguredWinners, Cardinality(DOMAIN giveaway_entries))

-----------------------------------------------------------------------------
(* Properties of the polls *)

\* C26: the results of a poll are displayed at most once and its row is
\* marked inactive at most once, also when the 'poll end' command and the
\* timer both call end_poll_message for it: a call displays the results or
\* marks the row only if it finds the poll in active_polls, it takes the
\* poll out of active_polls, and a poll never comes back into it.
C26_PollEndedOnce ==
    /\ [](\A p \in PollIds : pollClosed[p] <= 1)
    /\ [][\A p \in PollIds :
            /\ (pollClosed'[p] # pollClosed[p] \/ (PollOpen(p) /\ ~ PollOpen(p)'))
                    => (p \in active_polls /\ p \notin active_polls')
            /\ (p \in active_polls' /\ p \notin active_polls)
                    => p \notin DOMAIN polls]_vars

\* The command has ended a poll and the timer of that poll has called
\* end_poll_message afterwards.
C26_Witness ==
    \E p \in DOMAIN polls :
        /\ pollEndCalls[p] = 2
        /\ pollClosed[p] = 1
        /\ ~ polls[p].is_active
        /\ p \notin pollTimers

-----------------------------------------------------------------------------
(* Properties of the economy *)

\* C27 (as stated): from balances >= 0, after any sequence and interleaving
\* of give commands the economy balance of every user is >= 0.
C27_Original ==
    \A u \in DOMAIN economy : economy[u] >= 0

-----------------------------------------------------------------------------
(* Properties of the stock counts *)

-----------------------------------------------------------------------------
(* Properties of the message XP *)

\* C29 (as stated): after an add_xp call has awarded XP to a member, no
\* add_xp call changes the xp of that member before the cooldown of the
\* guild has passed since the award.
C29_Original ==
    [][\A m \in DOMAIN levels :
        levels'[m].xp # levels[m].xp
            => now >= levels[m].last_message_time + LevelCooldown]_vars

-----------------------------------------------------------------------------
(* Properties of the music queue *)

====
